---------------------------- MODULE Spec2Model ----------------------------
(***************************************************************************)
(* A model of the class-file reader of raskyer/asm (a Go port of ASM):     *)
(* the numeric readers, the constant-pool scan of the constructor, and     *)
(* Accept with its field, method and Code-attribute parsers.               *)
(*                                                                         *)
(* Go semantics kept by the model:                                         *)
(*  - c.b is a []byte; an expression built from b[i] alone is computed in  *)
(*    uint8, so a left shift drops every bit above bit 7;                  *)
(*  - an index outside a slice is a run-time panic.                        *)
(* Offsets are those of the Go code (0-based); B(o) reads c.b[o].          *)
(***************************************************************************)
EXTENDS Integers, Sequences, FiniteSets, TLC

VARIABLES
    b,                \* ClassReader.b: the class-file bytes
    pc,               \* position of the caller: new / ready / failed / ...
    err,              \* the error or panic a call ended with ("" if none)
    cpInfoOffsets,    \* ClassReader.cpInfoOffsets (Go index i is at i+1)
    header,           \* ClassReader.header
    maxStringLength,  \* ClassReader.maxStringLength
    constantUtf8Values, \* ClassReader.constantUtf8Values (Go index i is at i+1)
    utf8Calls,        \* the readUTF calls made so far: [index, assigned, ret]
    numRes,           \* the last numeric read: [op, off, val]
    parsingOptions,   \* Context.parsingOptions of the Accept call
    events,           \* the visitor callbacks made so far, in order
    acceptOffset,     \* AcceptB's currentOffset between two members
    fieldsCount,      \* AcceptB's fieldsCount (fields still to read)
    methodsCount,     \* AcceptB's methodsCount (methods still to read)
    context,          \* the Context of the Accept call
    code,             \* readCode's locals between two of its steps
    input             \* what the class file was assembled from

acceptVars ==
    <<parsingOptions, events, acceptOffset, fieldsCount, methodsCount, context, code, input>>

cacheVars == <<constantUtf8Values, utf8Calls>>

vars == <<b, pc, err, cpInfoOffsets, header, maxStringLength, cacheVars, numRes, acceptVars>>

\* The value of the one-point function f.  A value that is used more than
\* once is bound as [x \in {e} |-> ...]: e is then evaluated once.
With(f) == CHOOSE v \in UNION {{g[x] : x \in DOMAIN g} : g \in {f}} : TRUE

-----------------------------------------------------------------------------
(* Bit operations on non-negative integers.                                *)

RECURSIVE BitAndBits(_, _)
BitAndBits(x, y) ==
    IF x = 0 \/ y = 0 THEN 0
    ELSE (x % 2) * (y % 2) + 2 * BitAndBits(x \div 2, y \div 2)

PowersOfTwo == {2^i : i \in 0..30}

\* x & y: for the masks 0xFF and 0x7F the remainder, for a mask of one bit
\* that bit of x, bit by bit otherwise.
BitAnd(x, y) ==
    CASE y = 255 -> x % 256
      [] y = 127 -> x % 128
      [] y \in PowersOfTwo -> ((x \div y) % 2) * y
      [] OTHER -> BitAndBits(x, y)

RECURSIVE BitOr(_, _)
BitOr(x, y) ==
    IF x = 0 THEN y
    ELSE IF y = 0 THEN x
    ELSE (IF x % 2 = 1 \/ y % 2 = 1 THEN 1 ELSE 0) + 2 * BitOr(x \div 2, y \div 2)

RECURSIVE BitXor(_, _)
BitXor(x, y) ==
    IF x = 0 THEN y
    ELSE IF y = 0 THEN x
    ELSE ((x + y) % 2) + 2 * BitXor(x \div 2, y \div 2)

\* Go's x << n for x of type byte: the result is a byte.
ShlByte(x, n) == IF n >= 8 THEN 0 ELSE (x * 2^n) % 256

\* Go's int16(v) for a non-negative v.
ToInt16(v) == IF v % 65536 >= 32768 THEN (v % 65536) - 65536 ELSE v % 65536

\* The low 32 bits of x as two 16-bit halves <<high, low>>.
Low32(x) == << (x \div 65536) % 65536, x % 65536 >>

-----------------------------------------------------------------------------
(* Low-level parsing.                                                      *)

InBuf(o) == o >= 0 /\ o < Len(b)

B(o) == b[o + 1]

readByte(offset) == BitAnd(B(offset), 255)

readUnsignedShort(offset) ==
    BitOr(ShlByte(BitAnd(B(offset), 255), 8), BitAnd(B(offset + 1), 255))

readShort(offset) ==
    ToInt16(BitOr(ShlByte(BitAnd(B(offset), 255), 8), BitAnd(B(offset + 1), 255)))

readInt(offset) ==
    BitOr(BitOr(BitOr(ShlByte(BitAnd(B(offset), 255), 24),
                      ShlByte(BitAnd(B(offset + 1), 255), 16)),
                ShlByte(BitAnd(B(offset + 2), 255), 8)),
          BitAnd(B(offset + 3), 255))

\* (l1 << 32) | l0 as its two 32-bit words: hi is l1, lo is l0 & 0xFFFFFFFF.
readLong(offset) ==
    [hi |-> readInt(offset), lo |-> Low32(readInt(offset + 4))]

-----------------------------------------------------------------------------
(* Constant-pool tags and the class-file version limit.                    *)

CONSTANT_UTF8_TAG == 1
CONSTANT_INTEGER_TAG == 3
CONSTANT_FLOAT_TAG == 4
CONSTANT_LONG_TAG == 5
CONSTANT_DOUBLE_TAG == 6
CONSTANT_CLASS_TAG == 7
CONSTANT_STRING_TAG == 8
CONSTANT_FIELDREF_TAG == 9
CONSTANT_METHODREF_TAG == 10
CONSTANT_INTERFACE_METHODREF_TAG == 11
CONSTANT_NAME_AND_TYPE_TAG == 12
CONSTANT_METHOD_HANDLE_TAG == 15
CONSTANT_METHOD_TYPE_TAG == 16
CONSTANT_INVOKE_DYNAMIC_TAG == 18
CONSTANT_MODULE_TAG == 19
CONSTANT_PACKAGE_TAG == 20

V10 == 54

-----------------------------------------------------------------------------
(* The constructor: the version check and the constant-pool scan.          *)

\* The switch of classReader: the size of the entry whose tag byte is at
\* currentCpInfoOffset; -1 for the default branch (no such tag).
cpInfoSize(currentCpInfoOffset) ==
    LET tag == B(currentCpInfoOffset) IN
    CASE tag \in {CONSTANT_FIELDREF_TAG, CONSTANT_METHODREF_TAG,
                  CONSTANT_INTERFACE_METHODREF_TAG, CONSTANT_INTEGER_TAG,
                  CONSTANT_FLOAT_TAG, CONSTANT_NAME_AND_TYPE_TAG,
                  CONSTANT_INVOKE_DYNAMIC_TAG} -> 5
      [] tag \in {CONSTANT_LONG_TAG, CONSTANT_DOUBLE_TAG} -> 9
      [] tag = CONSTANT_UTF8_TAG -> 3 + readUnsignedShort(currentCpInfoOffset + 1)
      [] tag = CONSTANT_METHOD_HANDLE_TAG -> 4
      [] tag \in {CONSTANT_CLASS_TAG, CONSTANT_STRING_TAG, CONSTANT_METHOD_TYPE_TAG,
                  CONSTANT_PACKAGE_TAG, CONSTANT_MODULE_TAG} -> 3
      [] OTHER -> -1

\* The loop "for i := 1; i < constantPoolCount; i++" of classReader.
RECURSIVE cpScan(_, _, _, _, _)
cpScan(i, currentCpInfoOffset, offsets, maxLen, constantPoolCount) ==
    IF i >= constantPoolCount
    THEN [err |-> "", offsets |-> offsets, header |-> currentCpInfoOffset,
          maxStringLength |-> maxLen]
    ELSE IF ~InBuf(currentCpInfoOffset)
         \/ (B(currentCpInfoOffset) = CONSTANT_UTF8_TAG /\ ~InBuf(currentCpInfoOffset + 2))
    THEN [err |-> "index out of range", offsets |-> offsets, header |-> 0,
          maxStringLength |-> 0]
    ELSE LET size == cpInfoSize(currentCpInfoOffset)
             tag  == B(currentCpInfoOffset)
             wide == tag \in {CONSTANT_LONG_TAG, CONSTANT_DOUBLE_TAG}
             max1 == IF tag = CONSTANT_UTF8_TAG /\ size > maxLen THEN size ELSE maxLen
         IN IF size < 0
            THEN [err |-> "Assertion Error", offsets |-> offsets, header |-> 0,
                  maxStringLength |-> 0]
            ELSE cpScan(IF wide THEN i + 2 ELSE i + 1,
                        currentCpInfoOffset + size,
                        [offsets EXCEPT ![i + 1] = currentCpInfoOffset + 1],
                        max1, constantPoolCount)

\* classReader(byteBuffer, offset, length) with offset = 0.
classReader ==
    IF Len(b) < 10
    THEN [err |-> "index out of range", offsets |-> <<>>, header |-> 0,
          maxStringLength |-> 0]
    ELSE IF readShort(6) > V10
    THEN [err |-> "Illegal Argument", offsets |-> <<>>, header |-> 0,
          maxStringLength |-> 0]
    ELSE LET constantPoolCount == readUnsignedShort(8)
         IN cpScan(1, 10, [k \in 1..constantPoolCount |-> 0], 0, constantPoolCount)

\* NewClassReader(classFile): a Reader, or an error and no Reader.
NewClassReader ==
    /\ pc = "new"
    /\ \E r \in {classReader} :
       IF r.err = ""
       THEN /\ pc' = "ready"
            /\ err' = ""
            /\ cpInfoOffsets' = r.offsets
            /\ header' = r.header
            /\ maxStringLength' = r.maxStringLength
            /\ constantUtf8Values' = [k \in 1..Len(r.offsets) |-> <<>>]
       ELSE /\ pc' = "failed"
            /\ err' = r.err
            /\ UNCHANGED <<cpInfoOffsets, header, maxStringLength, constantUtf8Values>>
    /\ UNCHANGED <<b, numRes, utf8Calls, acceptVars>>

-----------------------------------------------------------------------------
(* Builders of the byte sequences given to the reader.                     *)

U2(n) == << n \div 256, n % 256 >>

U4(n) == << 0, 0 >> \o U2(n)

Rep(x, n) == [k \in 1..n |-> x]

RECURSIVE Flatten(_)
Flatten(ss) == IF ss = <<>> THEN <<>> ELSE Head(ss) \o Flatten(Tail(ss))

SeqsUpTo(S, n) == UNION { [1..k -> S] : k \in 0..n }

Magic == << 202, 254, 186, 190 >>

-----------------------------------------------------------------------------
(* The numeric readers on sample buffers.                                  *)

NumWords ==
    { <<0, 0, 0, 0>>, <<0, 0, 0, 1>>, <<0, 0, 1, 0>>, <<0, 1, 0, 0>>,
      <<1, 2, 3, 4>>, <<127, 255, 255, 255>>, <<128, 0, 0, 0>>,
      <<255, 255, 255, 255>>, <<0, 0, 255, 254>> }

NoRead == [op |-> "none", off |-> 0, val |-> 0]

\* Accept has not been called.
AcceptIdle ==
    /\ parsingOptions = 0
    /\ events = <<>>
    /\ acceptOffset = 0
    /\ fieldsCount = 0
    /\ methodsCount = 0
    /\ context = <<>>
    /\ code = <<>>
    /\ input = <<>>

InitNum ==
    /\ b \in { hi \o lo : hi \in NumWords, lo \in NumWords }
    /\ pc = "num"
    /\ err = ""
    /\ cpInfoOffsets = <<>>
    /\ header = 0
    /\ maxStringLength = 0
    /\ constantUtf8Values = <<>>
    /\ utf8Calls = <<>>
    /\ numRes = NoRead
    /\ AcceptIdle

CallRead(op, off, val) ==
    /\ pc = "num"
    /\ numRes = NoRead
    /\ numRes' = [op |-> op, off |-> off, val |-> val]
    /\ UNCHANGED <<b, pc, err, cpInfoOffsets, header, maxStringLength, cacheVars, acceptVars>>

CallReadByte == \E o \in 0..(Len(b) - 1) : CallRead("readByte", o, readByte(o))

CallReadUnsignedShort ==
    \E o \in 0..(Len(b) - 2) : CallRead("readUnsignedShort", o, readUnsignedShort(o))

CallReadShort == \E o \in 0..(Len(b) - 2) : CallRead("readShort", o, readShort(o))

CallReadInt == \E o \in 0..(Len(b) - 4) : CallRead("readInt", o, readInt(o))

CallReadLong == \E o \in 0..(Len(b) - 8) : CallRead("readLong", o, readLong(o))

NextNum ==
    \/ CallReadByte
    \/ CallReadUnsignedShort
    \/ CallReadShort
    \/ CallReadInt
    \/ CallReadLong

SpecNum == InitNum /\ [][NextNum]_vars

-----------------------------------------------------------------------------
(* The constructor on sample headers and constant pools.                   *)

MaxCpEntries == 2

CpKinds == { "utf0", "utf2", "utf256", "int", "long", "class", "mh", "bad" }

\* One constant-pool entry of each kind; "bad" has a tag no entry has.
CpEntry(kind) ==
    CASE kind = "utf0"   -> << CONSTANT_UTF8_TAG, 0, 0 >>
      [] kind = "utf2"   -> << CONSTANT_UTF8_TAG, 0, 2, 97, 98 >>
      [] kind = "utf256" -> << CONSTANT_UTF8_TAG, 1, 0 >> \o Rep(CONSTANT_CLASS_TAG, 256)
      [] kind = "int"    -> << CONSTANT_INTEGER_TAG, 0, 0, 0, 42 >>
      [] kind = "long"   -> << CONSTANT_LONG_TAG, 0, 0, 0, 0, 0, 0, 0, 1 >>
      [] kind = "class"  -> << CONSTANT_CLASS_TAG, 0, 1 >>
      [] kind = "mh"     -> << CONSTANT_METHOD_HANDLE_TAG, 1, 0, 1 >>
      [] kind = "bad"    -> << 2, 0, 0 >>

CpSlots(kind) == IF kind = "long" THEN 2 ELSE 1

RECURSIVE CpSlotCount(_)
CpSlotCount(kinds) ==
    IF kinds = <<>> THEN 0 ELSE CpSlots(Head(kinds)) + CpSlotCount(Tail(kinds))

Majors == { 45, 52, 54, 55, 255, 256, 310 }

\* magic, minor, major, constant_pool_count, the entries, then access_flags,
\* this_class, super_class and four empty counts.
CpInput(major, kinds) ==
    Magic \o U2(0) \o U2(major) \o U2(1 + CpSlotCount(kinds))
          \o Flatten([k \in 1..Len(kinds) |-> CpEntry(kinds[k])])
          \o Rep(0, 14)

InitCP ==
    /\ b \in { CpInput(major, kinds) : major \in Majors,
                                        kinds \in SeqsUpTo(CpKinds, MaxCpEntries) }
    /\ pc = "new"
    /\ err = ""
    /\ cpInfoOffsets = <<>>
    /\ header = 0
    /\ maxStringLength = 0
    /\ constantUtf8Values = <<>>
    /\ utf8Calls = <<>>
    /\ numRes = NoRead
    /\ AcceptIdle

NextCP == NewClassReader

SpecCP == InitCP /\ [][NextCP]_vars

-----------------------------------------------------------------------------
(* Big-endian values as the class-file format defines them, used to state  *)
(* what the readers are expected to return.                                *)

BigEndianU2(o) == 256 * B(o) + B(o + 1)

BigEndianS2(o) ==
    IF BigEndianU2(o) >= 32768 THEN BigEndianU2(o) - 65536 ELSE BigEndianU2(o)

BigEndianS4(o) ==
    (IF B(o) >= 128 THEN B(o) - 256 ELSE B(o)) * 16777216
        + B(o + 1) * 65536 + B(o + 2) * 256 + B(o + 3)

\* C10: the numeric readers are big-endian over the full value range:
\* readUnsignedShort(o) = 256*b[o] + b[o+1], readShort(o) is that value as a
\* signed 16-bit number, readInt(o) is the signed 32-bit value of b[o..o+3],
\* and readLong(o) has readInt(o) as high word and the unsigned 32 bits at
\* o+4 as low word.
C10_ReadersAreBigEndian ==
    /\ numRes.op = "readUnsignedShort" => numRes.val = BigEndianU2(numRes.off)
    /\ numRes.op = "readShort" => numRes.val = BigEndianS2(numRes.off)
    /\ numRes.op = "readInt" => numRes.val = BigEndianS4(numRes.off)
    /\ numRes.op = "readLong" =>
          /\ numRes.val.hi = BigEndianS4(numRes.off)
          /\ numRes.val.lo = << BigEndianU2(numRes.off + 4), BigEndianU2(numRes.off + 6) >>

\* C8: a class file whose major version (the big-endian u2 at offset 6) is
\* greater than 54 makes NewClassReader return an error and no Reader; a
\* major version of at most 54 never fails the version check.
C8_VersionCheck ==
    pc \in {"ready", "failed"} =>
        /\ BigEndianU2(6) > V10 => (pc = "failed" /\ err = "Illegal Argument")
        /\ BigEndianU2(6) <= V10 => err # "Illegal Argument"

\* The width of the entry whose tag byte is at o, as the class-file format
\* defines it (a UTF8 entry is 3 bytes plus its big-endian u2 length).
EntryWidth(o) ==
    IF B(o) = CONSTANT_UTF8_TAG THEN 3 + BigEndianU2(o + 1)
    ELSE IF B(o) \in {CONSTANT_LONG_TAG, CONSTANT_DOUBLE_TAG} THEN 9
    ELSE IF B(o) = CONSTANT_METHOD_HANDLE_TAG THEN 4
    ELSE IF B(o) \in {CONSTANT_CLASS_TAG, CONSTANT_STRING_TAG, CONSTANT_METHOD_TYPE_TAG,
                      CONSTANT_PACKAGE_TAG, CONSTANT_MODULE_TAG} THEN 3
    ELSE 5

\* Slots i..N-1 hold the entries that start at byte o, one after the other.
RECURSIVE CpLaidOutFrom(_, _, _)
CpLaidOutFrom(i, o, N) ==
    IF i >= N THEN header = o
    ELSE /\ InBuf(o)
         /\ cpInfoOffsets[i + 1] = o + 1
         /\ IF B(o) \in {CONSTANT_LONG_TAG, CONSTANT_DOUBLE_TAG}
            THEN /\ (i + 1 < N => cpInfoOffsets[i + 2] = 0)
                 /\ CpLaidOutFrom(i + 2, o + EntryWidth(o), N)
            ELSE CpLaidOutFrom(i + 1, o + EntryWidth(o), N)

\* C9: after NewClassReader succeeds on a pool of N slots, cpInfoOffsets[i]
\* of every entry is the offset just after its tag byte, consecutive entries
\* are spaced by the per-tag width, the slot after a Long or Double keeps 0,
\* and header is the offset of the first byte after the last entry.
C9_CpInfoOffsets ==
    pc = "ready" =>
        /\ Len(cpInfoOffsets) = BigEndianU2(8)
        /\ CpLaidOutFrom(1, 10, BigEndianU2(8))

-----------------------------------------------------------------------------
(* Strings are sequences of character codes.  The attribute names the      *)
(* parsers switch on, and the method name computeImplicitFame tests.       *)

EmptyString == <<>>

S_SourceFile == << 83, 111, 117, 114, 99, 101, 70, 105, 108, 101 >>  \* "SourceFile"

S_InnerClasses == << 73, 110, 110, 101, 114, 67, 108, 97, 115, 115, 101, 115 >>  \* "InnerClasses"

S_EnclosingMethod == << 69, 110, 99, 108, 111, 115, 105, 110, 103, 77, 101, 116, 104, 111, 100 >>  \* "EnclosingMethod"

S_Signature == << 83, 105, 103, 110, 97, 116, 117, 114, 101 >>  \* "Signature"

S_RuntimeVisibleAnnotations == << 82, 117, 110, 116, 105, 109, 101, 86, 105, 115, 105, 98, 108, 101, 65, 110, 110, 111, 116, 97, 116, 105, 111, 110, 115 >>  \* "RuntimeVisibleAnnotations"

S_RuntimeVisibleTypeAnnotations == << 82, 117, 110, 116, 105, 109, 101, 86, 105, 115, 105, 98, 108, 101, 84, 121, 112, 101, 65, 110, 110, 111, 116, 97, 116, 105, 111, 110, 115 >>  \* "RuntimeVisibleTypeAnnotations"

S_Deprecated == << 68, 101, 112, 114, 101, 99, 97, 116, 101, 100 >>  \* "Deprecated"

S_Synthetic == << 83, 121, 110, 116, 104, 101, 116, 105, 99 >>  \* "Synthetic"

S_SourceDebugExtension == << 83, 111, 117, 114, 99, 101, 68, 101, 98, 117, 103, 69, 120, 116, 101, 110, 115, 105, 111, 110 >>  \* "SourceDebugExtension"

S_RuntimeInvisibleAnnotations == << 82, 117, 110, 116, 105, 109, 101, 73, 110, 118, 105, 115, 105, 98, 108, 101, 65, 110, 110, 111, 116, 97, 116, 105, 111, 110, 115 >>  \* "RuntimeInvisibleAnnotations"

S_RuntimeInvisibleTypeAnnotations == << 82, 117, 110, 116, 105, 109, 101, 73, 110, 118, 105, 115, 105, 98, 108, 101, 84, 121, 112, 101, 65, 110, 110, 111, 116, 97, 116, 105, 111, 110, 115 >>  \* "RuntimeInvisibleTypeAnnotations"

S_Module == << 77, 111, 100, 117, 108, 101 >>  \* "Module"

S_ModuleMainClass == << 77, 111, 100, 117, 108, 101, 77, 97, 105, 110, 67, 108, 97, 115, 115 >>  \* "ModuleMainClass"

S_ModulePackages == << 77, 111, 100, 117, 108, 101, 80, 97, 99, 107, 97, 103, 101, 115 >>  \* "ModulePackages"

S_BootstrapMethods == << 66, 111, 111, 116, 115, 116, 114, 97, 112, 77, 101, 116, 104, 111, 100, 115 >>  \* "BootstrapMethods"

S_ConstantValue == << 67, 111, 110, 115, 116, 97, 110, 116, 86, 97, 108, 117, 101 >>  \* "ConstantValue"

S_Code == << 67, 111, 100, 101 >>  \* "Code"

S_Exceptions == << 69, 120, 99, 101, 112, 116, 105, 111, 110, 115 >>  \* "Exceptions"

S_AnnotationDefault == << 65, 110, 110, 111, 116, 97, 116, 105, 111, 110, 68, 101, 102, 97, 117, 108, 116 >>  \* "AnnotationDefault"

S_RuntimeVisibleParameterAnnotations == << 82, 117, 110, 116, 105, 109, 101, 86, 105, 115, 105, 98, 108, 101, 80, 97, 114, 97, 109, 101, 116, 101, 114, 65, 110, 110, 111, 116, 97, 116, 105, 111, 110, 115 >>  \* "RuntimeVisibleParameterAnnotations"

S_RuntimeInvisibleParameterAnnotations == << 82, 117, 110, 116, 105, 109, 101, 73, 110, 118, 105, 115, 105, 98, 108, 101, 80, 97, 114, 97, 109, 101, 116, 101, 114, 65, 110, 110, 111, 116, 97, 116, 105, 111, 110, 115 >>  \* "RuntimeInvisibleParameterAnnotations"

S_MethodParameters == << 77, 101, 116, 104, 111, 100, 80, 97, 114, 97, 109, 101, 116, 101, 114, 115 >>  \* "MethodParameters"

S_LocalVariableTable == << 76, 111, 99, 97, 108, 86, 97, 114, 105, 97, 98, 108, 101, 84, 97, 98, 108, 101 >>  \* "LocalVariableTable"

S_LocalVariableTypeTable == << 76, 111, 99, 97, 108, 86, 97, 114, 105, 97, 98, 108, 101, 84, 121, 112, 101, 84, 97, 98, 108, 101 >>  \* "LocalVariableTypeTable"

S_LineNumberTable == << 76, 105, 110, 101, 78, 117, 109, 98, 101, 114, 84, 97, 98, 108, 101 >>  \* "LineNumberTable"

S_StackMapTable == << 83, 116, 97, 99, 107, 77, 97, 112, 84, 97, 98, 108, 101 >>  \* "StackMapTable"

S_StackMap == << 83, 116, 97, 99, 107, 77, 97, 112 >>  \* "StackMap"

S_init == << 60, 105, 110, 105, 116, 62 >>  \* "<init>"

-----------------------------------------------------------------------------
(* Reading strings.  A reader that can panic returns [ok, val]: ok is      *)
(* FALSE when the Go code indexes outside a slice.                         *)

CanRead(o, n) == o >= 0 /\ o + n <= Len(b)

Panicked(val) == [ok |-> FALSE, val |-> val]

Returned(val) == [ok |-> TRUE, val |-> val]

\* Go's byte addition: the sum of two bytes is a byte.
AddByte(x, y) == (x + y) % 256

\* The loop of readUTFB: bytes currentOffset..endOffset-1 decoded into
\* charBuffer (of length bufLen), str being the characters decoded so far.
RECURSIVE readUTFBLoop(_, _, _, _)
readUTFBLoop(currentOffset, endOffset, str, bufLen) ==
    IF currentOffset >= endOffset THEN Returned(str)
    ELSE IF ~InBuf(currentOffset) \/ Len(str) >= bufLen THEN Panicked(str)
    ELSE LET currentByte == B(currentOffset) IN
         IF BitAnd(currentByte, 128) = 0
         THEN readUTFBLoop(currentOffset + 1, endOffset,
                           Append(str, BitAnd(currentByte, 127)), bufLen)
         ELSE IF BitAnd(currentByte, 224) = 192
         THEN IF ~InBuf(currentOffset + 1) THEN Panicked(str)
              ELSE readUTFBLoop(currentOffset + 2, endOffset,
                       Append(str, AddByte(ShlByte(BitAnd(currentByte, 31), 6),
                                           BitAnd(B(currentOffset + 1), 63))),
                       bufLen)
         ELSE IF ~InBuf(currentOffset + 2) THEN Panicked(str)
              ELSE LET d == AddByte(ShlByte(BitAnd(currentByte, 15), 12),
                                    ShlByte(BitAnd(B(currentOffset + 1), 63), 6))
                   IN readUTFBLoop(currentOffset + 3, endOffset,
                          Append(str, AddByte(d, BitAnd(B(currentOffset + 2), 63))),
                          bufLen)

readUTFB(utfOffset, utfLength, bufLen) ==
    readUTFBLoop(utfOffset, utfOffset + utfLength, <<>>, bufLen)

\* readUTF: the value is memoised in constantUtf8Values; as b never changes
\* the memoised value is the decoded one.
readUTF(constantPoolEntryIndex) ==
    IF constantPoolEntryIndex >= Len(cpInfoOffsets) THEN Panicked(<<>>)
    ELSE LET cpInfoOffset == cpInfoOffsets[constantPoolEntryIndex + 1] IN
         IF ~CanRead(cpInfoOffset, 2) THEN Panicked(<<>>)
         ELSE readUTFB(cpInfoOffset + 2, readUnsignedShort(cpInfoOffset), maxStringLength)

readUTF8(offset) ==
    IF ~CanRead(offset, 2) THEN Panicked(<<>>)
    ELSE LET constantPoolEntryIndex == readUnsignedShort(offset) IN
         IF offset = 0 \/ constantPoolEntryIndex = 0 THEN Returned(EmptyString)
         ELSE readUTF(constantPoolEntryIndex)

\* c.cpInfoOffsets[c.readUnsignedShort(offset)]
cpItem(offset) ==
    IF ~CanRead(offset, 2) \/ readUnsignedShort(offset) >= Len(cpInfoOffsets)
    THEN Panicked(0)
    ELSE Returned(cpInfoOffsets[readUnsignedShort(offset) + 1])

readStringish(offset) ==
    IF ~cpItem(offset).ok THEN Panicked(<<>>) ELSE readUTF8(cpItem(offset).val)

readClass(offset) == readStringish(offset)

readModuleB(offset) == readStringish(offset)

readPackage(offset) == readStringish(offset)

\* readConst(constantPoolEntryIndex): only whether it returns matters to the
\* callers modelled here (every caller drops the error; the value goes to the
\* visitor); ok is FALSE when it panics.
readConst(constantPoolEntryIndex) ==
    IF constantPoolEntryIndex >= Len(cpInfoOffsets) THEN Panicked(0)
    ELSE LET cpInfoOffset == cpInfoOffsets[constantPoolEntryIndex + 1] IN
    IF ~InBuf(cpInfoOffset - 1) THEN Panicked(0)
    ELSE LET tag == B(cpInfoOffset - 1) IN
    IF tag \in {CONSTANT_INTEGER_TAG, CONSTANT_FLOAT_TAG}
    THEN IF CanRead(cpInfoOffset, 4) THEN Returned(tag) ELSE Panicked(0)
    ELSE IF tag \in {CONSTANT_LONG_TAG, CONSTANT_DOUBLE_TAG}
    THEN IF CanRead(cpInfoOffset, 8) THEN Returned(tag) ELSE Panicked(0)
    ELSE IF tag \in {CONSTANT_CLASS_TAG, CONSTANT_STRING_TAG, CONSTANT_METHOD_TYPE_TAG}
    THEN IF readUTF8(cpInfoOffset).ok THEN Returned(tag) ELSE Panicked(0)
    ELSE IF tag = CONSTANT_METHOD_HANDLE_TAG
    THEN IF ~cpItem(cpInfoOffset + 1).ok THEN Panicked(0)
         ELSE LET referenceCpInfoOffset == cpItem(cpInfoOffset + 1).val IN
         IF ~cpItem(referenceCpInfoOffset + 2).ok THEN Panicked(0)
         ELSE LET nameAndTypeCpInfoOffset == cpItem(referenceCpInfoOffset + 2).val IN
         IF /\ readClass(referenceCpInfoOffset).ok
            /\ readUTF8(nameAndTypeCpInfoOffset).ok
            /\ readUTF8(nameAndTypeCpInfoOffset + 2).ok
            /\ InBuf(referenceCpInfoOffset - 1)
         THEN Returned(tag) ELSE Panicked(0)
    ELSE Returned(0)

-----------------------------------------------------------------------------
(* Visitor callbacks and the state a parser threads through its steps.     *)
(*                                                                         *)
(* An event is one callback: the visitor kind it is made on, the method    *)
(* called, the bytecode offset of a Code event (-1 elsewhere), an integer  *)
(* argument (opcode, line number, frame type, ...), the bytecode offsets   *)
(* of its label arguments, the visitor the callback returned ("" for a     *)
(* callback whose result is not modelled), the number of locals passed to  *)
(* VisitFrame (0 for the other callbacks), and whether the label passed    *)
(* is a copy of the Label of the table instead of that Label itself.       *)
(* A parser state s has ok (FALSE once the Go code has panicked; nothing   *)
(* happens after that), off (the parser's current offset), evs (the        *)
(* callbacks made) and labels (context.currentMethodLabels).               *)

Ev(v, ev, off, arg, lbls) ==
    [v |-> v, ev |-> ev, off |-> off, arg |-> arg, lbls |-> lbls, ret |-> "", nLocal |-> 0,
     copy |-> FALSE]

Returning(e, visitor) == [e EXCEPT !.ret = visitor]

\* The event of a callback that is passed "&l", l being the receiver of a
\* method whose receiver is a Label value: the address of a copy.
OfCopy(e) == [e EXCEPT !.copy = TRUE]

\* The event of VisitFrame(type, nLocal, ...).
WithLocals(e, nLocal) == [e EXCEPT !.nLocal = nLocal]

Fail(s) == [s EXCEPT !.ok = FALSE]

Emit(s, e) == [s EXCEPT !.evs = Append(@, e)]

\* panic(errors.New("Assertion Error")): the failure the reader raises itself,
\* recorded as the last thing the call did so that it can be told from a
\* failure of the runtime (an index out of range, a negative length).
AssertionError(s) == [s EXCEPT !.ok = FALSE,
                             !.evs = Append(@, Ev("reader", "AssertionError", s.off, 0, <<>>))]

At(s, o) == [s EXCEPT !.off = o]

\* A visitor is "nil", or "visitor" (its child visitors are visitors too), or
\* "leaf" (a visitor whose methods return nil child visitors).
Visitors == {"nil", "leaf", "visitor"}

\* A nil test that never holds.
neverNil(visitor) == FALSE

isNil(visitor) == visitor = "nil"

ChildOf(visitor) == IF visitor = "visitor" THEN "visitor" ELSE "nil"

\* c.readInt(c.cpInfoOffsets[c.readUnsignedShort(offset)]) does not panic.
CanReadIntItem(offset) == cpItem(offset).ok /\ CanRead(cpItem(offset).val, 4)

\* c.readLong(c.cpInfoOffsets[c.readUnsignedShort(offset)]) does not panic.
CanReadLongItem(offset) == cpItem(offset).ok /\ CanRead(cpItem(offset).val, 8)

\* The loops "for i := 0; i < numValues; i++" of the primitive arrays of
\* readElementValue: the offset after the values, or a panic.
RECURSIVE readPrimitiveArray(_, _, _)
readPrimitiveArray(s, numValues, wide) ==
    IF numValues = 0 THEN s
    ELSE IF (IF wide THEN CanReadLongItem(s.off + 1) ELSE CanReadIntItem(s.off + 1))
    THEN readPrimitiveArray(At(s, s.off + 3), numValues - 1, wide)
    ELSE Fail(s)

RECURSIVE readElementValues(_, _, _)
RECURSIVE readElementValue(_, _)
RECURSIVE readElementValuePairs(_, _, _, _)

\* The two loops of readElementValues.
readElementValuePairs(s, annotationVisitor, named, numElementValuePairs) ==
    IF ~s.ok \/ numElementValuePairs = 0 THEN s
    ELSE IF named
    THEN IF ~readUTF8(s.off).ok THEN Fail(s)
         ELSE readElementValuePairs(readElementValue(At(s, s.off + 2), annotationVisitor),
                                    annotationVisitor, named, numElementValuePairs - 1)
    ELSE readElementValuePairs(readElementValue(s, annotationVisitor),
                               annotationVisitor, named, numElementValuePairs - 1)

\* readElementValues(annotationVisitor, annotationOffset, named, charBuffer)
\* with annotationOffset = s.off; the returned offset is in the result.
readElementValues(s, annotationVisitor, named) ==
    IF ~s.ok THEN s
    ELSE IF ~CanRead(s.off, 2) THEN Fail(s)
    ELSE With([r \in {readElementValuePairs(At(s, s.off + 2), annotationVisitor, named,
                                        readUnsignedShort(s.off))} |->
            IF r.ok /\ ~isNil(annotationVisitor)
            THEN Emit(r, Ev("annotation", "VisitEnd", -1, 0, <<>>))
            ELSE r])

\* readElementValue(annotationVisitor, elementValueOffset, elementName,
\* charBuffer) with elementValueOffset = s.off.
readElementValue(s, annotationVisitor) ==
    IF ~s.ok THEN s
    ELSE IF ~InBuf(s.off) THEN Fail(s)
    ELSE LET tag == B(s.off)
             o1  == s.off + 1
             visit == Emit(s, Ev("annotation", "Visit", -1, tag, <<>>))
             array == Emit(s, Ev("annotation", "VisitArray", -1, tag, <<>>))
    IN
    IF isNil(annotationVisitor)
    THEN CASE tag = 101 -> At(s, s.off + 5)                                   \* 'e'
           [] tag = 64  -> readElementValues(At(s, s.off + 3), "nil", TRUE)   \* '@'
           [] tag = 91  -> readElementValues(At(s, s.off + 1), "nil", FALSE)  \* '['
           [] OTHER     -> At(s, s.off + 3)
    ELSE
    CASE tag \in {66, 67, 83, 90} ->                             \* 'B' 'C' 'S' 'Z'
            IF CanReadIntItem(o1) THEN At(visit, o1 + 2) ELSE Fail(s)
      [] tag \in {68, 70, 73, 74} ->                             \* 'D' 'F' 'I' 'J'
            IF CanRead(o1, 2) /\ readConst(readUnsignedShort(o1)).ok
            THEN At(visit, o1 + 2) ELSE Fail(s)
      [] tag \in {115, 99} ->                                    \* 's' 'c'
            IF readUTF8(o1).ok THEN At(visit, o1 + 2) ELSE Fail(s)
      [] tag = 101 ->                                            \* 'e'
            IF readUTF8(o1).ok /\ readUTF8(o1 + 2).ok
            THEN At(Emit(s, Ev("annotation", "VisitEnum", -1, tag, <<>>)), o1 + 4)
            ELSE Fail(s)
      [] tag = 64 ->                                             \* '@'
            readElementValues(At(array, o1 - 2), ChildOf(annotationVisitor), FALSE)
      [] tag = 91 ->                                             \* '['
            IF ~CanRead(o1, 2) THEN Fail(s)
            ELSE LET numValues == readUnsignedShort(o1)
                     o3 == o1 + 2
                 IN IF numValues = 0
                    THEN readElementValues(At(array, o3 - 2), ChildOf(annotationVisitor), FALSE)
                    ELSE IF ~InBuf(o3) THEN Fail(s)
                    ELSE IF B(o3) \in {66, 90, 83, 67, 73, 70}   \* 'B' 'Z' 'S' 'C' 'I' 'F'
                    THEN With([r \in {readPrimitiveArray(At(s, o3), numValues, FALSE)} |->
                            IF r.ok THEN Emit(r, Ev("annotation", "Visit", -1, tag, <<>>)) ELSE r])
                    ELSE IF B(o3) \in {74, 68}                   \* 'J' 'D'
                    THEN With([r \in {readPrimitiveArray(At(s, o3), numValues, TRUE)} |->
                            IF r.ok THEN Emit(r, Ev("annotation", "Visit", -1, tag, <<>>)) ELSE r])
                    ELSE readElementValues(At(array, o3 - 2), ChildOf(annotationVisitor), FALSE)
      [] OTHER -> AssertionError(s)

-----------------------------------------------------------------------------
(* Labels.  context.currentMethodLabels is a sequence of label records,    *)
(* Go index i at i+1; present is FALSE for a nil entry; <<>> is the nil    *)
(* slice.  otherLineNumbers is <<>> while the Go slice is nil.             *)

FLAG_DEBUG_ONLY == 1

LINE_NUMBERS_CAPACITY_INCREMENT == 4

VALUES_CAPACITY_INCREMENT == 6

\* An entry of a table of labels: nil (present is FALSE), or the pointer to
\* the Label allocated at that address, with the fields of the Label.
NoLabel ==
    [present |-> FALSE, flags |-> 0, lineNumber |-> 0, otherLineNumbers |-> <<>>,
     address |-> 0]

NewLabel == [NoLabel EXCEPT !.present = TRUE]

\* make([]*Label, n)
MakeLabels(n) == [k \in 1..n |-> NoLabel]

InLabels(labels, bytecodeOffset) == bytecodeOffset >= 0 /\ bytecodeOffset < Len(labels)

LabelAt(labels, bytecodeOffset) == labels[bytecodeOffset + 1]

\* The offsets whose entry of the table is not nil.
LabelOffsets(labels) == { o \in 0..(Len(labels) - 1) : LabelAt(labels, o).present }

\* "&Label{}": an address no Label of the table has.
NewAddress(labels) == Cardinality(LabelOffsets(labels)) + 1

readLabel(s, bytecodeOffset) ==
    IF ~s.ok THEN s
    ELSE IF ~InLabels(s.labels, bytecodeOffset) THEN Fail(s)
    ELSE IF LabelAt(s.labels, bytecodeOffset).present THEN s
    ELSE [s EXCEPT !.labels[bytecodeOffset + 1] =
                       [NewLabel EXCEPT !.address = NewAddress(s.labels)]]

createLabel(s, bytecodeOffset) ==
    LET r == readLabel(s, bytecodeOffset) IN
    IF ~r.ok THEN r
    ELSE [r EXCEPT !.labels[bytecodeOffset + 1].flags =
                       @ - BitAnd(@, FLAG_DEBUG_ONLY)]

\* createDebugLabel without its test of labels[bytecodeOffset].
createDebugLabelAlways(s, bytecodeOffset) ==
    LET r == readLabel(s, bytecodeOffset) IN
    IF ~r.ok THEN r
    ELSE [r EXCEPT !.labels[bytecodeOffset + 1].flags = BitOr(@, FLAG_DEBUG_ONLY)]

createDebugLabel(s, bytecodeOffset) ==
    IF ~s.ok THEN s
    ELSE IF ~InLabels(s.labels, bytecodeOffset) THEN Fail(s)
    ELSE IF LabelAt(s.labels, bytecodeOffset).present THEN s
    ELSE LET r == readLabel(s, bytecodeOffset) IN
         [r EXCEPT !.labels[bytecodeOffset + 1].flags = BitOr(@, FLAG_DEBUG_ONLY)]

\* Label.addLineNumber: [ok, val] with val the label afterwards.
addLineNumber(l, lineNumber) ==
    IF l.lineNumber = 0
    THEN Returned([l EXCEPT !.lineNumber = ToInt16(lineNumber)])
    ELSE LET made == IF l.otherLineNumbers = <<>>
                     THEN [k \in 1..LINE_NUMBERS_CAPACITY_INCREMENT |-> 0]
                     ELSE l.otherLineNumbers
             otherLineNumberCount == made[1]
             counted == [made EXCEPT ![1] = @ + 1]
             grown == IF otherLineNumberCount >= Len(counted)
                      THEN counted \o [k \in 1..VALUES_CAPACITY_INCREMENT |-> 0]
                      ELSE counted
         IN IF otherLineNumberCount < 0 \/ otherLineNumberCount >= Len(grown)
            THEN Panicked([l EXCEPT !.otherLineNumbers = grown])
            ELSE Returned([l EXCEPT !.otherLineNumbers =
                               [grown EXCEPT ![otherLineNumberCount + 1] = lineNumber]])

\* The loop "for i := 1; i <= l.otherLineNumbers[0]; i++" of Label.accept.
RECURSIVE acceptOtherLineNumbers(_, _, _, _)
acceptOtherLineNumbers(s, l, bytecodeOffset, i) ==
    IF i > l.otherLineNumbers[1] THEN s
    ELSE IF i >= Len(l.otherLineNumbers) THEN Fail(s)
    ELSE acceptOtherLineNumbers(
             Emit(s, OfCopy(Ev("method", "VisitLineNumber", bytecodeOffset,
                               l.otherLineNumbers[i + 1], <<bytecodeOffset>>))),
             l, bytecodeOffset, i + 1)

\* Label.accept(methodVisitor, visitLineNumbers) on the label of bytecodeOffset.
accept(s, l, bytecodeOffset, visitLineNumbers) ==
    LET visited == Emit(s, OfCopy(Ev("method", "VisitLabel", bytecodeOffset, 0,
                                     <<bytecodeOffset>>)))
    IN
    IF visitLineNumbers /\ l.lineNumber # 0
    THEN LET lined == Emit(visited, OfCopy(Ev("method", "VisitLineNumber", bytecodeOffset,
                                              l.lineNumber % 65536, <<bytecodeOffset>>)))
         IN IF l.otherLineNumbers # <<>>
            THEN acceptOtherLineNumbers(lined, l, bytecodeOffset, 1)
            ELSE lined
    ELSE visited

-----------------------------------------------------------------------------
(* Type annotation targets.                                                *)

typereference_CLASS_TYPE_PARAMETER == 0
typereference_METHOD_TYPE_PARAMETER == 1
typereference_CLASS_EXTENDS == 16
typereference_CLASS_TYPE_PARAMETER_BOUND == 17
typereference_METHOD_TYPE_PARAMETER_BOUND == 18
typereference_FIELD == 19
typereference_METHOD_RETURN == 20
typereference_METHOD_RECEIVER == 21
typereference_METHOD_FORMAL_PARAMETER == 22
typereference_THROWS == 23
typereference_LOCAL_VARIABLE == 64
typereference_RESOURCE_VARIABLE == 65
typereference_EXCEPTION_PARAMETER == 66
typereference_INSTANCEOF == 67
typereference_NEW == 68
typereference_CONSTRUCTOR_REFERENCE == 69
typereference_METHOD_REFERENCE == 70
typereference_CAST == 71
typereference_CONSTRUCTOR_INVOCATION_TYPE_ARGUMENT == 72
typereference_METHOD_INVOCATION_TYPE_ARGUMENT == 73
typereference_CONSTRUCTOR_REFERENCE_TYPE_ARGUMENT == 74
typereference_METHOD_REFERENCE_TYPE_ARGUMENT == 75

\* targetType >> 24
TargetSort(targetType) == targetType \div 16777216

\* The size of the target_info the switches of readTypeAnnotations and
\* readTypeAnnotationTarget skip for a sort other than LOCAL_VARIABLE and
\* RESOURCE_VARIABLE; -1 in the default branch.
TargetInfoSize(sort) ==
    CASE sort \in {typereference_CLASS_TYPE_PARAMETER, typereference_METHOD_TYPE_PARAMETER,
                   typereference_METHOD_FORMAL_PARAMETER} -> 2
      [] sort \in {typereference_FIELD, typereference_METHOD_RETURN,
                   typereference_METHOD_RECEIVER} -> 1
      [] sort \in {typereference_CAST, typereference_CONSTRUCTOR_INVOCATION_TYPE_ARGUMENT,
                   typereference_METHOD_INVOCATION_TYPE_ARGUMENT,
                   typereference_CONSTRUCTOR_REFERENCE_TYPE_ARGUMENT,
                   typereference_METHOD_REFERENCE_TYPE_ARGUMENT} -> 4
      [] sort \in {typereference_CLASS_EXTENDS, typereference_CLASS_TYPE_PARAMETER_BOUND,
                   typereference_METHOD_TYPE_PARAMETER_BOUND, typereference_THROWS,
                   typereference_EXCEPTION_PARAMETER, typereference_INSTANCEOF,
                   typereference_NEW, typereference_CONSTRUCTOR_REFERENCE,
                   typereference_METHOD_REFERENCE} -> 3
      [] OTHER -> -1

\* The targetType &= mask of each branch of readTypeAnnotationTarget.
MaskedTarget(targetType) ==
    LET sort == TargetSort(targetType) IN
    CASE sort \in {typereference_CLASS_TYPE_PARAMETER, typereference_METHOD_TYPE_PARAMETER,
                   typereference_METHOD_FORMAL_PARAMETER} -> (targetType \div 65536) * 65536
      [] sort \in {typereference_CAST, typereference_CONSTRUCTOR_INVOCATION_TYPE_ARGUMENT,
                   typereference_METHOD_INVOCATION_TYPE_ARGUMENT,
                   typereference_CONSTRUCTOR_REFERENCE_TYPE_ARGUMENT,
                   typereference_METHOD_REFERENCE_TYPE_ARGUMENT} ->
            sort * 16777216 + (targetType % 256)
      [] sort \in {typereference_CLASS_EXTENDS, typereference_CLASS_TYPE_PARAMETER_BOUND,
                   typereference_METHOD_TYPE_PARAMETER_BOUND, typereference_THROWS,
                   typereference_EXCEPTION_PARAMETER} -> (targetType \div 256) * 256
      [] OTHER -> sort * 16777216

\* The loops over the table of a LOCAL_VARIABLE or RESOURCE_VARIABLE target:
\* two labels per entry, s.off moving over the entries.
RECURSIVE readLocalVariableTargetTable(_, _)
readLocalVariableTargetTable(s, tableLength) ==
    IF ~s.ok \/ tableLength = 0 THEN s
    ELSE IF ~CanRead(s.off, 6) THEN Fail(s)
    ELSE LET startPc == readUnsignedShort(s.off)
             length  == readUnsignedShort(s.off + 2)
         IN readLocalVariableTargetTable(
                createLabel(createLabel(At(s, s.off + 6), startPc), startPc + length),
                tableLength - 1)

\* readTypeAnnotationTarget(context, typeAnnotationOffset) with
\* typeAnnotationOffset = s.off; the returned offset is in the result.
readTypeAnnotationTarget(s) ==
    IF ~s.ok THEN s
    ELSE IF ~CanRead(s.off, 4) THEN Fail(s)
    ELSE LET targetType == readInt(s.off)
             sort == TargetSort(targetType)
             IN With([r \in {IF sort \in {typereference_LOCAL_VARIABLE, typereference_RESOURCE_VARIABLE}
                  THEN IF ~CanRead(s.off + 1, 2) THEN Fail(s)
                       ELSE readLocalVariableTargetTable(At(s, s.off + 3),
                                                         readUnsignedShort(s.off + 1))
                  ELSE IF TargetInfoSize(sort) < 0 THEN AssertionError(s)
                  ELSE At(s, s.off + TargetInfoSize(sort))} |->
            IF ~r.ok THEN r
            ELSE IF ~InBuf(r.off) THEN Fail(r)
            ELSE LET pathLength == readByte(r.off) IN
                 [r EXCEPT !.off = r.off + 1 + 2 * pathLength,
                           !.currentTypeAnnotationTarget = MaskedTarget(targetType),
                           !.currentTypeAnnotationTargetPath =
                               IF pathLength # 0 THEN r.off ELSE @]])

-----------------------------------------------------------------------------
(* Parsing options and the Context.                                        *)

SKIP_CODE == 1
SKIP_DEBUG == 2
SKIP_FRAMES == 4
EXPAND_FRAMS == 8
EXPAND_ASM_INSNS == 256

AllOptions ==
    { c + d + f + e + a : c \in {0, SKIP_CODE}, d \in {0, SKIP_DEBUG}, f \in {0, SKIP_FRAMES},
                          e \in {0, EXPAND_FRAMS}, a \in {0, EXPAND_ASM_INSNS} }

\* A test of the bit above the one of flag.
HasOptionAbove(options, flag) == BitAnd(options, 2 * flag) # 0

\* (parsingOptions & flag) != 0
HasOption(options, flag) == BitAnd(options, flag) # 0

\* The fields of Context that outlive a call; the sizes of the two frame
\* type slices stand for the slices.
NewContext ==
    [labels |-> <<>>,
     currentTypeAnnotationTarget |-> 0,
     currentTypeAnnotationTargetPath |-> -1,
     bootstrapMethodOffsets |-> <<>>,
     currentMethodAccessFlags |-> 0,
     currentMethodName |-> <<>>,
     currentMethodDescriptor |-> <<>>,
     currentFrameOffset |-> 0,
     currentFrameType |-> 0,
     currentFrameLocalCount |-> 0,
     currentFrameLocalCountDelta |-> 0,
     currentFrameStackCount |-> 0,
     currentFrameLocalTypes |-> 0,
     currentFrameStackTypes |-> 0]

ContextFields == DOMAIN NewContext

\* A parser state at offset off, with no callback made yet.
Start(ctx, off) ==
    [f \in ContextFields \cup {"ok", "off", "evs"} |->
        CASE f = "ok" -> TRUE
          [] f = "off" -> off
          [] f = "evs" -> <<>>
          [] OTHER -> ctx[f]]

ContextOf(s) == [f \in ContextFields |-> s[f]]

-----------------------------------------------------------------------------
(* Annotations of a class, field or method.                                *)

\* The loop "for numAnnotations > 0" over the annotations of an attribute:
\* s.off is currentAnnotationOffset, v the visitor the annotations are
\* reported to, each by the callback ev; typed tells whether a target is
\* read first; the visitor each callback returns is annotationVisitor.
RECURSIVE readAnnotations(_, _, _, _, _, _, _)
readAnnotations(s, v, ev, numAnnotations, typed, visible, annotationVisitor) ==
    IF ~s.ok \/ numAnnotations = 0 THEN s
    ELSE With([t \in {IF typed THEN readTypeAnnotationTarget(s) ELSE s} |->
         IF ~t.ok THEN t
         ELSE IF ~readUTF8(t.off).ok THEN Fail(t)
         ELSE readAnnotations(
                  readElementValues(
                      At(Emit(t, Ev(v, ev, -1, IF visible THEN 1 ELSE 0, <<>>)), t.off + 2),
                      annotationVisitor, TRUE),
                  v, ev, numAnnotations - 1, typed, visible, annotationVisitor)])

\* "if offset != 0 { numAnnotations := readUnsignedShort(offset) ... }"
readAnnotationsAt(s, offset, v, ev, typed, visible, annotationVisitor) ==
    IF ~s.ok \/ offset = 0 THEN s
    ELSE IF ~CanRead(offset, 2) THEN Fail(s)
    ELSE At(readAnnotations(At(s, offset + 2), v, ev, readUnsignedShort(offset),
                            typed, visible, annotationVisitor),
            s.off)

\* "for attributes != nil { visitor.VisitAttribute(attributes) ... }"
RECURSIVE visitAttributes(_, _, _)
visitAttributes(s, v, attributes) ==
    IF ~s.ok \/ attributes = <<>> THEN s
    ELSE visitAttributes(Emit(s, Ev(v, "VisitAttribute", -1, Head(attributes), <<>>)),
                         v, Tail(attributes))

-----------------------------------------------------------------------------
(* The Module attribute.                                                   *)

\* "for n > 0 { visitor.ev(readStringish(currentOffset)); currentOffset += 2 }"
RECURSIVE readNames(_, _, _, _)
readNames(s, v, ev, n) ==
    IF ~s.ok \/ n = 0 THEN s
    ELSE IF ~readStringish(s.off).ok THEN Fail(s)
    ELSE readNames(At(Emit(s, Ev(v, ev, -1, 0, <<>>)), s.off + 2), v, ev, n - 1)

\* "for i := 0; i < n; i++ { names[i] = readStringish(currentOffset); currentOffset += 2 }"
RECURSIVE skipNames(_, _)
skipNames(s, n) ==
    IF ~s.ok \/ n = 0 THEN s
    ELSE IF ~readStringish(s.off).ok THEN Fail(s)
    ELSE skipNames(At(s, s.off + 2), n - 1)

\* The requires loop of readModule.
RECURSIVE readRequires(_, _)
readRequires(s, requiresCount) ==
    IF ~s.ok \/ requiresCount = 0 THEN s
    ELSE IF ~(readModuleB(s.off).ok /\ CanRead(s.off + 2, 2) /\ readUTF8(s.off + 4).ok)
    THEN Fail(s)
    ELSE readRequires(At(Emit(s, Ev("module", "VisitRequire", -1, 0, <<>>)), s.off + 6),
                      requiresCount - 1)

\* The exports and opens loops of readModule (ev is VisitExport or VisitOpen).
RECURSIVE readExports(_, _, _)
readExports(s, ev, exportsCount) ==
    IF ~s.ok \/ exportsCount = 0 THEN s
    ELSE IF ~(readPackage(s.off).ok /\ CanRead(s.off + 2, 4)) THEN Fail(s)
    ELSE With([to \in {skipNames(At(s, s.off + 6), readUnsignedShort(s.off + 4))} |->
         IF ~to.ok THEN to
         ELSE readExports(Emit(to, Ev("module", ev, -1, 0, <<>>)), ev, exportsCount - 1)])

\* The provides loop of readModule.
RECURSIVE readProvides(_, _)
readProvides(s, providesCount) ==
    IF ~s.ok \/ providesCount = 0 THEN s
    ELSE IF ~(readClass(s.off).ok /\ CanRead(s.off + 2, 2)) THEN Fail(s)
    ELSE With([with \in {skipNames(At(s, s.off + 4), readUnsignedShort(s.off + 2))} |->
         IF ~with.ok THEN with
         ELSE readProvides(Emit(with, Ev("module", "VisitProvide", -1, 0, <<>>)),
                           providesCount - 1)])

\* "count := readUnsignedShort(currentOffset); currentOffset += 2"
ReadCount(s) == IF s.ok /\ CanRead(s.off, 2) THEN readUnsignedShort(s.off) ELSE 0

SkipCount(s) == IF ~s.ok THEN s ELSE IF CanRead(s.off, 2) THEN At(s, s.off + 2) ELSE Fail(s)

\* readModule(classVisitor, context, moduleOffset, modulePackagesOffset,
\* moduleMainClass); moduleVisitor is what VisitModule returns.
readModule(s, moduleOffset, modulePackagesOffset, moduleVisitor) ==
    IF ~s.ok THEN s
    ELSE IF ~(readModuleB(moduleOffset).ok /\ CanRead(moduleOffset + 2, 2)
              /\ readUTF8(moduleOffset + 4).ok)
    THEN Fail(s)
    ELSE LET visited == Emit(s, Ev("class", "VisitModule", -1, 0, <<>>)) IN
    IF isNil(moduleVisitor) THEN visited
    ELSE With([packages \in {
                 IF modulePackagesOffset = 0 THEN visited
                 ELSE IF ~CanRead(modulePackagesOffset, 2) THEN Fail(visited)
                 ELSE readNames(At(visited, modulePackagesOffset + 2), "module",
                                "VisitPackage", readUnsignedShort(modulePackagesOffset))} |->
             LET atRequires == At(packages, moduleOffset + 6)
             IN With([requires \in {readRequires(SkipCount(atRequires), ReadCount(atRequires))} |->
             With([exports \in {readExports(SkipCount(requires), "VisitExport", ReadCount(requires))} |->
             With([opens \in {readExports(SkipCount(exports), "VisitOpen", ReadCount(exports))} |->
             With([uses \in {readNames(SkipCount(opens), "module", "VisitUse", ReadCount(opens))} |->
             With([provides \in {readProvides(SkipCount(uses), ReadCount(uses))} |->
            IF provides.ok
            THEN At(Emit(provides, Ev("module", "VisitEnd", -1, 0, <<>>)), s.off)
            ELSE provides])])])])])])

-----------------------------------------------------------------------------
(* AcceptB up to the field list.                                           *)

\* "for attributesCount > 0 { currentOffset += 6 + readInt(currentOffset+2) }"
RECURSIVE skipAttributes(_, _)
skipAttributes(offset, attributesCount) ==
    IF attributesCount = 0 THEN Returned(offset)
    ELSE IF ~CanRead(offset + 2, 4) THEN Panicked(offset)
    ELSE skipAttributes(offset + 6 + readInt(offset + 2), attributesCount - 1)

\* The loops of getFirstAttributeOffset over the fields and over the methods.
RECURSIVE skipMembers(_, _)
skipMembers(offset, membersCount) ==
    IF membersCount = 0 THEN Returned(offset)
    ELSE IF ~CanRead(offset + 6, 2) THEN Panicked(offset)
    ELSE With([r \in {skipAttributes(offset + 8, readUnsignedShort(offset + 6))} |->
         IF ~r.ok THEN r ELSE skipMembers(r.val, membersCount - 1)])

getFirstAttributeOffset ==
    IF ~CanRead(header + 6, 2) THEN Panicked(0)
    ELSE LET atFields == header + 8 + readUnsignedShort(header + 6) * 2 IN
    IF ~CanRead(atFields, 2) THEN Panicked(0)
    ELSE With([fields \in {skipMembers(atFields + 2, readUnsignedShort(atFields))} |->
    IF ~fields.ok \/ ~CanRead(fields.val, 2) THEN Panicked(0)
    ELSE With([methods \in {skipMembers(fields.val + 2, readUnsignedShort(fields.val))} |->
    IF ~methods.ok THEN Panicked(0) ELSE Returned(methods.val + 2)])])

\* The locals the attribute loop of AcceptB sets; attributes lists the
\* unknown attributes (by offset), the last one read first.
NoClassAttributes ==
    [ok |-> TRUE, off |-> 0,
     innerClassesOffset |-> 0, enclosingMethodOffset |-> 0,
     sourceFile |-> EmptyString, sourceDebugExtension |-> EmptyString,
     runtimeVisibleAnnotationsOffset |-> 0, runtimeInvisibleAnnotationsOffset |-> 0,
     runtimeVisibleTypeAnnotationsOffset |-> 0, runtimeInvisibleTypeAnnotationsOffset |-> 0,
     moduleOffset |-> 0, modulePackagesOffset |-> 0,
     bootstrapMethodOffsets |-> <<>>, attributes |-> <<>>]

\* The loop of the BootstrapMethods case: [ok, val] with val the offsets.
RECURSIVE readBootstrapMethodOffsets(_, _, _)
readBootstrapMethodOffsets(currentBootstrapMethodOffset, n, offsets) ==
    IF n = 0 THEN Returned(offsets)
    ELSE IF ~CanRead(currentBootstrapMethodOffset + 2, 2) THEN Panicked(offsets)
    ELSE readBootstrapMethodOffsets(
             currentBootstrapMethodOffset + 4
                 + readUnsignedShort(currentBootstrapMethodOffset + 2) * 2,
             n - 1, Append(offsets, currentBootstrapMethodOffset))

\* One iteration of the attribute loop of AcceptB; a.off is
\* currentAttributeOffset.
readClassAttribute(a) ==
    IF ~(readUTF8(a.off).ok /\ CanRead(a.off + 2, 4)) THEN Fail(a)
    ELSE
    With([attributeName \in {readUTF8(a.off).val} |->
        LET attributeLength == readInt(a.off + 2)
        o == a.off + 6
        next == [a EXCEPT !.off = o + attributeLength]
    IN
    CASE attributeName = S_SourceFile ->
            IF readUTF8(o).ok THEN [next EXCEPT !.sourceFile = readUTF8(o).val] ELSE Fail(a)
      [] attributeName = S_InnerClasses -> [next EXCEPT !.innerClassesOffset = o]
      [] attributeName = S_EnclosingMethod -> [next EXCEPT !.enclosingMethodOffset = o]
      [] attributeName = S_Signature -> IF readUTF8(o).ok THEN next ELSE Fail(a)
      [] attributeName = S_RuntimeVisibleAnnotations ->
            [next EXCEPT !.runtimeVisibleAnnotationsOffset = o]
      [] attributeName = S_RuntimeVisibleTypeAnnotations ->
            [next EXCEPT !.runtimeVisibleTypeAnnotationsOffset = o]
      [] attributeName \in {S_Deprecated, S_Synthetic} -> next
      [] attributeName = S_SourceDebugExtension ->
            With([r \in {readUTFB(o, attributeLength, attributeLength)} |->
            IF r.ok THEN [next EXCEPT !.sourceDebugExtension = r.val] ELSE Fail(a)])
      [] attributeName = S_RuntimeInvisibleAnnotations ->
            [next EXCEPT !.runtimeInvisibleAnnotationsOffset = o]
      [] attributeName = S_RuntimeInvisibleTypeAnnotations ->
            [next EXCEPT !.runtimeInvisibleTypeAnnotationsOffset = o]
      [] attributeName = S_Module -> [next EXCEPT !.moduleOffset = o]
      [] attributeName = S_ModuleMainClass -> IF readClass(o).ok THEN next ELSE Fail(a)
      [] attributeName = S_ModulePackages -> [next EXCEPT !.modulePackagesOffset = o]
      [] attributeName = S_BootstrapMethods ->
            IF ~CanRead(o, 2) THEN Fail(a)
            ELSE LET r == readBootstrapMethodOffsets(o + 2, readUnsignedShort(o), <<>>) IN
                 IF r.ok THEN [next EXCEPT !.bootstrapMethodOffsets = r.val] ELSE Fail(a)
      [] OTHER -> [next EXCEPT !.attributes = <<a.off>> \o @]])

RECURSIVE readClassAttributes(_, _)
readClassAttributes(a, i) ==
    IF ~a.ok \/ i = 0 THEN a ELSE readClassAttributes(readClassAttribute(a), i - 1)

\* The VisitInnerClass loop of AcceptB; s.off is currentClassesOffset and
\* currentAttributeOffset is where the attribute loop stopped.
RECURSIVE visitInnerClasses(_, _, _)
visitInnerClasses(s, numberOfClasses, currentAttributeOffset) ==
    IF ~s.ok \/ numberOfClasses = 0 THEN s
    ELSE IF ~(/\ readClass(s.off).ok
              /\ readClass(currentAttributeOffset + 2).ok
              /\ readClass(s.off + 4).ok
              /\ CanRead(s.off + 6, 2))
    THEN Fail(s)
    ELSE visitInnerClasses(At(Emit(s, Ev("class", "VisitInnerClass", -1, 0, <<>>)), s.off + 8),
                           numberOfClasses - 1, currentAttributeOffset)

\* AcceptB from its first line to the line before "fieldsCount := ...".  The
\* result is at the offset of fields_count.  moduleVisitor is what VisitModule
\* returns and annotationVisitor what VisitAnnotation and VisitTypeAnnotation
\* return.
acceptHead(ctx, options, moduleVisitor, annotationVisitor) ==
    LET s0 == Start(ctx, header) IN
    IF ~(CanRead(header, 2) /\ readClass(header + 2).ok /\ readClass(header + 4).ok
         /\ CanRead(header + 6, 2))
    THEN Fail(s0)
    ELSE
    With([interfaces \in {skipNames(At(s0, header + 8), readUnsignedShort(header + 6))} |->
    IF ~interfaces.ok THEN interfaces
    ELSE IF ~getFirstAttributeOffset.ok \/ ~CanRead(getFirstAttributeOffset.val - 2, 2)
    THEN Fail(interfaces)
    ELSE
    With([a \in {readClassAttributes([NoClassAttributes EXCEPT !.off = getFirstAttributeOffset.val],
                                 readUnsignedShort(getFirstAttributeOffset.val - 2))} |->
    IF ~a.ok THEN Fail(interfaces)
    ELSE IF Len(cpInfoOffsets) < 2 \/ ~CanRead(cpInfoOffsets[2] - 7, 4) THEN Fail(interfaces)
    ELSE
    LET withBootstrap == [interfaces EXCEPT !.bootstrapMethodOffsets =
                              IF a.bootstrapMethodOffsets # <<>> THEN a.bootstrapMethodOffsets
                              ELSE @]
        visited == Emit(withBootstrap, Ev("class", "Visit", -1, 0, <<>>))
        source  == IF ~HasOption(options, SKIP_DEBUG)
                      /\ (a.sourceFile # EmptyString \/ a.sourceDebugExtension # EmptyString)
                   THEN Emit(visited, Ev("class", "VisitSource", -1, 0, <<>>))
                   ELSE visited
        IN With([module \in {IF a.moduleOffset # 0
                   THEN readModule(source, a.moduleOffset, a.modulePackagesOffset, moduleVisitor)
                   ELSE source} |->
        With([outer \in {IF ~module.ok \/ a.enclosingMethodOffset = 0 THEN module
                   ELSE IF ~(readClass(a.enclosingMethodOffset).ok
                             /\ CanRead(a.enclosingMethodOffset + 2, 2))
                   THEN Fail(module)
                   ELSE LET methodIndex == readUnsignedShort(a.enclosingMethodOffset + 2) IN
                        IF methodIndex # 0
                           /\ ~(/\ methodIndex < Len(cpInfoOffsets)
                                /\ readUTF8(cpInfoOffsets[methodIndex + 1]).ok
                                /\ readUTF8(cpInfoOffsets[methodIndex + 1] + 2).ok)
                        THEN Fail(module)
                        ELSE Emit(module, Ev("class", "VisitOuterClass", -1, 0, <<>>))} |->
        With([visible \in {readAnnotationsAt(outer, a.runtimeVisibleAnnotationsOffset, "class",
                                     "VisitAnnotation", FALSE, TRUE, annotationVisitor)} |->
        With([invisible \in {readAnnotationsAt(visible, a.runtimeInvisibleAnnotationsOffset, "class",
                                       "VisitAnnotation", FALSE, FALSE, annotationVisitor)} |->
        \* the RuntimeVisibleTypeAnnotations branch reads the annotations at
        \* runtimeInvisibleAnnotationsOffset and reports them by VisitAnnotation
        With([visibleType \in {IF ~invisible.ok \/ a.runtimeVisibleTypeAnnotationsOffset = 0
                       THEN invisible
                       ELSE IF ~CanRead(a.runtimeInvisibleAnnotationsOffset, 2)
                       THEN Fail(invisible)
                       ELSE At(readAnnotations(
                                   At(invisible, a.runtimeInvisibleAnnotationsOffset + 2),
                                   "class", "VisitAnnotation",
                                   readUnsignedShort(a.runtimeInvisibleAnnotationsOffset),
                                   FALSE, FALSE, annotationVisitor),
                               invisible.off)} |->
        With([invisibleType \in {readAnnotationsAt(visibleType, a.runtimeInvisibleTypeAnnotationsOffset,
                                           "class", "VisitTypeAnnotation", TRUE, FALSE,
                                           annotationVisitor)} |->
        LET attributed == visitAttributes(invisibleType, "class", a.attributes)
        IN With([inner \in {IF ~attributed.ok \/ a.innerClassesOffset = 0 THEN attributed
                 ELSE IF ~CanRead(a.innerClassesOffset, 2) THEN Fail(attributed)
                 ELSE At(visitInnerClasses(At(attributed, a.innerClassesOffset + 2),
                                           readUnsignedShort(a.innerClassesOffset), a.off),
                         attributed.off)} |->
       inner])])])])])])])])])

-----------------------------------------------------------------------------
(* readField.                                                              *)

ACC_STATIC == 8
ACC_SYNTHETIC == 4096
ACC_DEPRECATED == 131072

NoFieldAttributes ==
    [ok |-> TRUE, off |-> 0,
     runtimeVisibleAnnotationsOffset |-> 0, runtimeInvisibleAnnotationsOffset |-> 0,
     runtimeVisibleTypeAnnotationsOffset |-> 0, runtimeInvisibleTypeAnnotationsOffset |-> 0,
     attributes |-> <<>>]

\* One iteration of the attribute loop of readField; a.off is currentOffset.
readFieldAttribute(a) ==
    IF ~(readUTF8(a.off).ok /\ CanRead(a.off + 2, 4)) THEN Fail(a)
    ELSE
    With([attributeName \in {readUTF8(a.off).val} |->
        LET attributeLength == readInt(a.off + 2)
        o == a.off + 6
        next == [a EXCEPT !.off = o + attributeLength]
    IN
    CASE attributeName = S_ConstantValue ->
            IF ~CanRead(o, 2) THEN Fail(a)
            ELSE IF readUnsignedShort(o) # 0 /\ ~readConst(readUnsignedShort(o)).ok THEN Fail(a)
            ELSE next
      [] attributeName = S_Signature -> IF readUTF8(o).ok THEN next ELSE Fail(a)
      [] attributeName \in {S_Deprecated, S_Synthetic} -> next
      [] attributeName = S_RuntimeVisibleAnnotations ->
            [next EXCEPT !.runtimeVisibleAnnotationsOffset = o]
      [] attributeName = S_RuntimeVisibleTypeAnnotations ->
            [next EXCEPT !.runtimeVisibleTypeAnnotationsOffset = o]
      [] attributeName = S_RuntimeInvisibleAnnotations ->
            [next EXCEPT !.runtimeInvisibleAnnotationsOffset = o]
      [] attributeName = S_RuntimeInvisibleTypeAnnotations ->
            [next EXCEPT !.runtimeInvisibleTypeAnnotationsOffset = o]
      [] OTHER -> [next EXCEPT !.attributes = <<a.off>> \o @]])

RECURSIVE readFieldAttributes(_, _)
readFieldAttributes(a, attributesCount) ==
    IF ~a.ok \/ attributesCount = 0 THEN a
    ELSE readFieldAttributes(readFieldAttribute(a), attributesCount - 1)

\* The four annotation blocks and the VisitAttribute loop that readField and
\* readMethod make on the visitor v of the member.
visitMemberAnnotations(s, a, v, annotationVisitor) ==
    With([visible \in {readAnnotationsAt(s, a.runtimeVisibleAnnotationsOffset, v,
                                     "VisitAnnotation", FALSE, TRUE, annotationVisitor)} |->
        With([invisible \in {readAnnotationsAt(visible, a.runtimeInvisibleAnnotationsOffset, v,
                                       "VisitAnnotation", FALSE, FALSE, annotationVisitor)} |->
        With([visibleType \in {readAnnotationsAt(invisible, a.runtimeVisibleTypeAnnotationsOffset, v,
                                         "VisitTypeAnnotation", TRUE, TRUE, annotationVisitor)} |->
       readAnnotationsAt(visibleType, a.runtimeInvisibleTypeAnnotationsOffset, v,
                         "VisitTypeAnnotation", TRUE, FALSE, annotationVisitor)])])])

\* readField(classVisitor, context, fieldInfoOffset) with fieldInfoOffset =
\* s.off; fieldVisitor is what VisitField returns.  The returned offset is in
\* the result.
readField(s, fieldVisitor, annotationVisitor) ==
    IF ~(CanRead(s.off, 2) /\ readUTF8(s.off + 2).ok /\ readUTF8(s.off + 4).ok
         /\ CanRead(s.off + 6, 2))
    THEN Fail(s)
    ELSE
    With([a \in {readFieldAttributes([NoFieldAttributes EXCEPT !.off = s.off + 8],
                                 readUnsignedShort(s.off + 6))} |->
    IF ~a.ok THEN Fail(s)
    ELSE
    LET visited == At(Emit(s, Returning(Ev("class", "VisitField", -1, 0, <<>>), fieldVisitor)),
                      a.off)
    IN
    IF isNil(fieldVisitor) THEN visited
    ELSE With([annotated \in {visitMemberAnnotations(visited, a, "field", annotationVisitor)} |->
             LET attributed == visitAttributes(annotated, "field", a.attributes)
         IN IF attributed.ok THEN Emit(attributed, Ev("field", "VisitEnd", -1, 0, <<>>))
            ELSE attributed])])

-----------------------------------------------------------------------------
(* Opcodes and frame types.                                                *)

F_NEW == -1
F_FULL == 0
NOP == 0
ACONST_NULL == 1
F_APPEND == 1
F_CHOP == 2
ICONST_M1 == 2
F_SAME == 3
ICONST_0 == 3
F_SAME1 == 4
ICONST_1 == 4
ICONST_2 == 5
ICONST_3 == 6
ICONST_4 == 7
ICONST_5 == 8
LCONST_0 == 9
LCONST_1 == 10
FCONST_0 == 11
FCONST_1 == 12
FCONST_2 == 13
DCONST_0 == 14
DCONST_1 == 15
BIPUSH == 16
SIPUSH == 17
LDC == 18
LDC_W == 19
ASM_IFNULL_OPCODE_DELTA == 20
LDC2_W == 20
ILOAD == 21
LLOAD == 22
FLOAD == 23
DLOAD == 24
ALOAD == 25
ILOAD_0 == 26
ILOAD_1 == 27
ILOAD_2 == 28
ILOAD_3 == 29
LLOAD_0 == 30
LLOAD_1 == 31
LLOAD_2 == 32
LLOAD_3 == 33
FLOAD_0 == 34
FLOAD_1 == 35
FLOAD_2 == 36
FLOAD_3 == 37
DLOAD_0 == 38
DLOAD_1 == 39
DLOAD_2 == 40
DLOAD_3 == 41
ALOAD_0 == 42
ALOAD_1 == 43
ALOAD_2 == 44
ALOAD_3 == 45
IALOAD == 46
LALOAD == 47
FALOAD == 48
ASM_OPCODE_DELTA == 49
DALOAD == 49
AALOAD == 50
BALOAD == 51
CALOAD == 52
SALOAD == 53
ISTORE == 54
LSTORE == 55
FSTORE == 56
DSTORE == 57
ASTORE == 58
ISTORE_0 == 59
ISTORE_1 == 60
ISTORE_2 == 61
ISTORE_3 == 62
LSTORE_0 == 63
LSTORE_1 == 64
LSTORE_2 == 65
LSTORE_3 == 66
FSTORE_0 == 67
FSTORE_1 == 68
FSTORE_2 == 69
FSTORE_3 == 70
DSTORE_0 == 71
DSTORE_1 == 72
DSTORE_2 == 73
DSTORE_3 == 74
ASTORE_0 == 75
ASTORE_1 == 76
ASTORE_2 == 77
ASTORE_3 == 78
IASTORE == 79
LASTORE == 80
FASTORE == 81
DASTORE == 82
AASTORE == 83
BASTORE == 84
CASTORE == 85
SASTORE == 86
POP == 87
POP2 == 88
DUP == 89
DUP_X1 == 90
DUP_X2 == 91
DUP2 == 92
DUP2_X1 == 93
DUP2_X2 == 94
SWAP == 95
IADD == 96
LADD == 97
FADD == 98
DADD == 99
ISUB == 100
LSUB == 101
FSUB == 102
DSUB == 103
IMUL == 104
LMUL == 105
FMUL == 106
DMUL == 107
IDIV == 108
LDIV == 109
FDIV == 110
DDIV == 111
IREM == 112
LREM == 113
FREM == 114
DREM == 115
INEG == 116
LNEG == 117
FNEG == 118
DNEG == 119
ISHL == 120
LSHL == 121
ISHR == 122
LSHR == 123
IUSHR == 124
LUSHR == 125
IAND == 126
LAND == 127
IOR == 128
LOR == 129
IXOR == 130
LXOR == 131
IINC == 132
I2L == 133
I2F == 134
I2D == 135
L2I == 136
L2F == 137
L2D == 138
F2I == 139
F2L == 140
F2D == 141
D2I == 142
D2L == 143
D2F == 144
I2B == 145
I2C == 146
I2S == 147
LCMP == 148
FCMPL == 149
FCMPG == 150
DCMPL == 151
DCMPG == 152
IFEQ == 153
IFNE == 154
IFLT == 155
IFGE == 156
IFGT == 157
IFLE == 158
IF_ICMPEQ == 159
IF_ICMPNE == 160
IF_ICMPLT == 161
IF_ICMPGE == 162
IF_ICMPGT == 163
IF_ICMPLE == 164
IF_ACMPEQ == 165
IF_ACMPNE == 166
GOTO == 167
JSR == 168
RET == 169
TABLESWITCH == 170
LOOKUPSWITCH == 171
IRETURN == 172
LRETURN == 173
FRETURN == 174
DRETURN == 175
ARETURN == 176
RETURN == 177
GETSTATIC == 178
PUTSTATIC == 179
GETFIELD == 180
PUTFIELD == 181
INVOKEVIRTUAL == 182
INVOKESPECIAL == 183
INVOKESTATIC == 184
INVOKEINTERFACE == 185
INVOKEDYNAMIC == 186
opcodes_NEW == 187
NEWARRAY == 188
ANEWARRAY == 189
ARRAYLENGTH == 190
ATHROW == 191
CHECKCAST == 192
INSTANCEOF == 193
MONITORENTER == 194
MONITOREXIT == 195
WIDE == 196
MULTIANEWARRAY == 197
IFNULL == 198
IFNONNULL == 199
GOTO_W == 200
JSR_W == 201
ASM_GOTO_W == 220
F_INSERT == 256

WIDE_JUMP_OPCODE_DELTA == GOTO_W - GOTO
ASM_IFEQ == IFEQ + ASM_OPCODE_DELTA
ASM_IFNE == IFNE + ASM_OPCODE_DELTA
ASM_IFLT == IFLT + ASM_OPCODE_DELTA
ASM_IFGE == IFGE + ASM_OPCODE_DELTA
ASM_IFGT == IFGT + ASM_OPCODE_DELTA
ASM_IFLE == IFLE + ASM_OPCODE_DELTA
ASM_IF_ICMPEQ == IF_ICMPEQ + ASM_OPCODE_DELTA
ASM_IF_ICMPNE == IF_ICMPNE + ASM_OPCODE_DELTA
ASM_IF_ICMPLT == IF_ICMPLT + ASM_OPCODE_DELTA
ASM_IF_ICMPGE == IF_ICMPGE + ASM_OPCODE_DELTA
ASM_IF_ICMPGT == IF_ICMPGT + ASM_OPCODE_DELTA
ASM_IF_ICMPLE == IF_ICMPLE + ASM_OPCODE_DELTA
ASM_IF_ACMPEQ == IF_ACMPEQ + ASM_OPCODE_DELTA
ASM_IF_ACMPNE == IF_ACMPNE + ASM_OPCODE_DELTA
ASM_GOTO == GOTO + ASM_OPCODE_DELTA
ASM_JSR == JSR + ASM_OPCODE_DELTA
ASM_IFNULL == IFNULL + ASM_IFNULL_OPCODE_DELTA
ASM_IFNONNULL == IFNONNULL + ASM_IFNULL_OPCODE_DELTA

\* pass 1: opcodes without operand
FirstPassOneByteInsns ==
    { NOP, ACONST_NULL, ICONST_M1, ICONST_0, ICONST_1, ICONST_2, ICONST_3, ICONST_4,
      ICONST_5, LCONST_0, LCONST_1, FCONST_0, FCONST_1, FCONST_2, DCONST_0, DCONST_1,
      IALOAD, LALOAD, FALOAD, DALOAD, AALOAD, BALOAD, CALOAD, SALOAD, IASTORE,
      LASTORE, FASTORE, DASTORE, AASTORE, BASTORE, CASTORE, SASTORE, POP, POP2, DUP,
      DUP_X1, DUP_X2, DUP2, DUP2_X1, DUP2_X2, SWAP, IADD, LADD, FADD, DADD, ISUB,
      LSUB, FSUB, DSUB, IMUL, LMUL, FMUL, DMUL, IDIV, LDIV, FDIV, DDIV, IREM, LREM,
      FREM, DREM, INEG, LNEG, FNEG, DNEG, ISHL, LSHL, ISHR, LSHR, IUSHR, LUSHR, IAND,
      LAND, IOR, LOR, IXOR, LXOR, I2L, I2F, I2D, L2I, L2F, L2D, F2I, F2L, F2D, D2I,
      D2L, D2F, I2B, I2C, I2S, LCMP, FCMPL, FCMPG, DCMPL, DCMPG, IRETURN, LRETURN,
      FRETURN, DRETURN, ARETURN, RETURN, ARRAYLENGTH, ATHROW, MONITORENTER,
      MONITOREXIT, ILOAD_0, ILOAD_1, ILOAD_2, ILOAD_3, LLOAD_0, LLOAD_1, LLOAD_2,
      LLOAD_3, FLOAD_0, FLOAD_1, FLOAD_2, FLOAD_3, DLOAD_0, DLOAD_1, DLOAD_2,
      DLOAD_3, ALOAD_0, ALOAD_1, ALOAD_2, ALOAD_3, ISTORE_0, ISTORE_1, ISTORE_2,
      ISTORE_3, LSTORE_0, LSTORE_1, LSTORE_2, LSTORE_3, FSTORE_0, FSTORE_1, FSTORE_2,
      FSTORE_3, DSTORE_0, DSTORE_1, DSTORE_2, DSTORE_3, ASTORE_0, ASTORE_1, ASTORE_2,
      ASTORE_3 }

\* jumps with a signed 2-byte offset
ShortJumpInsns ==
    { IFEQ, IFNE, IFLT, IFGE, IFGT, IFLE, IF_ICMPEQ, IF_ICMPNE, IF_ICMPLT, IF_ICMPGE,
      IF_ICMPGT, IF_ICMPLE, IF_ACMPEQ, IF_ACMPNE, GOTO, JSR, IFNULL, IFNONNULL }

\* ASM jumps with an unsigned 2-byte offset
AsmJumpInsns ==
    { ASM_IFEQ, ASM_IFNE, ASM_IFLT, ASM_IFGE, ASM_IFGT, ASM_IFLE, ASM_IF_ICMPEQ,
      ASM_IF_ICMPNE, ASM_IF_ICMPLT, ASM_IF_ICMPGE, ASM_IF_ICMPGT, ASM_IF_ICMPLE,
      ASM_IF_ACMPEQ, ASM_IF_ACMPNE, ASM_GOTO, ASM_JSR, ASM_IFNULL, ASM_IFNONNULL }

\* pass 1: jumps with a 4-byte offset
FirstPassWideJumpInsns ==
    { GOTO_W, JSR_W, ASM_GOTO_W }

\* pass 1: opcodes with a 1-byte operand
FirstPassTwoByteInsns ==
    { ILOAD, LLOAD, FLOAD, DLOAD, ALOAD, ISTORE, LSTORE, FSTORE, DSTORE, ASTORE, RET,
      BIPUSH, NEWARRAY, LDC }

\* pass 1: opcodes with a 2-byte operand
FirstPassThreeByteInsns ==
    { SIPUSH, LDC_W, LDC2_W, GETSTATIC, PUTSTATIC, GETFIELD, PUTFIELD, INVOKEVIRTUAL,
      INVOKESPECIAL, INVOKESTATIC, opcodes_NEW, ANEWARRAY, CHECKCAST, INSTANCEOF, IINC }

\* pass 1: opcodes with a 4-byte operand
FirstPassFiveByteInsns ==
    { INVOKEINTERFACE, INVOKEDYNAMIC }

\* pass 2: reported by VisitInsn
VisitInsnOpcodes ==
    { NOP, ACONST_NULL, ICONST_M1, ICONST_0, ICONST_1, ICONST_2, ICONST_3, ICONST_4,
      ICONST_5, LCONST_0, LCONST_1, FCONST_0, FCONST_1, FCONST_2, DCONST_0, DCONST_1,
      IALOAD, LALOAD, FALOAD, DALOAD, AALOAD, BALOAD, CALOAD, SALOAD, IASTORE,
      LASTORE, FASTORE, DASTORE, AASTORE, BASTORE, CASTORE, SASTORE, POP, POP2, DUP,
      DUP_X1, DUP_X2, DUP2, DUP2_X1, DUP2_X2, SWAP, IADD, LADD, FADD, DADD, ISUB,
      LSUB, FSUB, DSUB, IMUL, LMUL, FMUL, DMUL, IDIV, LDIV, FDIV, DDIV, IREM, LREM,
      FREM, DREM, INEG, LNEG, FNEG, DNEG, ISHL, LSHL, ISHR, LSHR, IUSHR, LUSHR, IAND,
      LAND, IOR, LOR, IXOR, LXOR, I2L, I2F, I2D, L2I, L2F, L2D, F2I, F2L, F2D, D2I,
      D2L, D2F, I2B, I2C, I2S, LCMP, FCMPL, FCMPG, DCMPL, DCMPG, IRETURN, LRETURN,
      FRETURN, DRETURN, ARETURN, RETURN, ARRAYLENGTH, ATHROW, MONITORENTER,
      MONITOREXIT }

\* pass 2: xLOAD_n
LoadNOpcodes ==
    { ILOAD_0, ILOAD_1, ILOAD_2, ILOAD_3, LLOAD_0, LLOAD_1, LLOAD_2, LLOAD_3,
      FLOAD_0, FLOAD_1, FLOAD_2, FLOAD_3, DLOAD_0, DLOAD_1, DLOAD_2, DLOAD_3,
      ALOAD_0, ALOAD_1, ALOAD_2, ALOAD_3 }

\* pass 2: xSTORE_n
StoreNOpcodes ==
    { ISTORE_0, ISTORE_1, ISTORE_2, ISTORE_3, LSTORE_0, LSTORE_1, LSTORE_2, LSTORE_3,
      FSTORE_0, FSTORE_1, FSTORE_2, FSTORE_3, DSTORE_0, DSTORE_1, DSTORE_2, DSTORE_3,
      ASTORE_0, ASTORE_1, ASTORE_2, ASTORE_3 }

\* pass 2: GOTO_W and JSR_W
WideJumpInsns ==
    { GOTO_W, JSR_W }

\* pass 2: reported by VisitVarInsn
VarInsnOpcodes ==
    { ILOAD, LLOAD, FLOAD, DLOAD, ALOAD, ISTORE, LSTORE, FSTORE, DSTORE, ASTORE, RET }

\* pass 2: BIPUSH and NEWARRAY
IntInsnOpcodes ==
    { BIPUSH, NEWARRAY }

\* pass 2: LDC_W and LDC2_W
LdcWideOpcodes ==
    { LDC_W, LDC2_W }

\* pass 2: field and method instructions
FieldOrMethodInsnOpcodes ==
    { GETSTATIC, PUTSTATIC, GETFIELD, PUTFIELD, INVOKEVIRTUAL, INVOKESPECIAL,
      INVOKESTATIC, INVOKEINTERFACE }

\* pass 2: reported by VisitTypeInsn
TypeInsnOpcodes ==
    { opcodes_NEW, ANEWARRAY, CHECKCAST, INSTANCEOF }

-----------------------------------------------------------------------------
(* readMethod up to the Code attribute.                                    *)

NoMethodAttributes ==
    [ok |-> TRUE, off |-> 0, codeOffset |-> 0, signature |-> 0,
     runtimeVisibleAnnotationsOffset |-> 0, runtimeInvisibleAnnotationsOffset |-> 0,
     runtimeVisibleParameterAnnotationsOffset |-> 0,
     runtimeInvisibleParameterAnnotationsOffset |-> 0,
     runtimeVisibleTypeAnnotationsOffset |-> 0, runtimeInvisibleTypeAnnotationsOffset |-> 0,
     annotationDefaultOffset |-> 0, methodParametersOffset |-> 0,
     accessFlags |-> 0, attributes |-> <<>>]

\* One iteration of the attribute loop of readMethod; a.off is currentOffset
\* and a.accessFlags is context.currentMethodAccessFlags.
readMethodAttribute(a, options) ==
    IF ~(readUTF8(a.off).ok /\ CanRead(a.off + 2, 4)) THEN Fail(a)
    ELSE
    With([attributeName \in {readUTF8(a.off).val} |->
        LET attributeLength == readInt(a.off + 2)
        o == a.off + 6
        next == [a EXCEPT !.off = o + attributeLength]
    IN
    CASE attributeName = S_Code ->
            IF ~HasOption(options, SKIP_CODE) THEN [next EXCEPT !.codeOffset = o] ELSE next
      [] attributeName = S_Exceptions ->
            IF ~CanRead(o, 2) THEN Fail(a)
            ELSE IF skipNames([ok |-> TRUE, off |-> o + 2], readUnsignedShort(o)).ok
            THEN next ELSE Fail(a)
      [] attributeName = S_Signature ->
            IF CanRead(o, 2) THEN [next EXCEPT !.signature = readUnsignedShort(o)] ELSE Fail(a)
      [] attributeName = S_Deprecated ->
            [next EXCEPT !.accessFlags = BitOr(@, ACC_DEPRECATED)]
      [] attributeName = S_RuntimeVisibleAnnotations ->
            [next EXCEPT !.runtimeVisibleAnnotationsOffset = o]
      [] attributeName = S_RuntimeVisibleTypeAnnotations ->
            [next EXCEPT !.runtimeVisibleTypeAnnotationsOffset = o]
      [] attributeName = S_AnnotationDefault -> [next EXCEPT !.annotationDefaultOffset = o]
      [] attributeName = S_Synthetic ->
            [next EXCEPT !.accessFlags = BitOr(@, ACC_SYNTHETIC)]
      [] attributeName = S_RuntimeInvisibleAnnotations ->
            [next EXCEPT !.runtimeInvisibleAnnotationsOffset = o]
      [] attributeName = S_RuntimeInvisibleTypeAnnotations ->
            [next EXCEPT !.runtimeInvisibleTypeAnnotationsOffset = o]
      [] attributeName = S_RuntimeVisibleParameterAnnotations ->
            [next EXCEPT !.runtimeVisibleParameterAnnotationsOffset = o]
      [] attributeName = S_RuntimeInvisibleParameterAnnotations ->
            [next EXCEPT !.runtimeInvisibleParameterAnnotationsOffset = o]
      [] attributeName = S_MethodParameters -> [next EXCEPT !.methodParametersOffset = o]
      [] OTHER -> [next EXCEPT !.attributes = <<a.off>> \o @]])

RECURSIVE readMethodAttributes(_, _, _)
readMethodAttributes(a, options, attributesCount) ==
    IF ~a.ok \/ attributesCount = 0 THEN a
    ELSE readMethodAttributes(readMethodAttribute(a, options), options, attributesCount - 1)

\* The VisitParameter loop of readMethod; s.off is currentParameterOffset.
RECURSIVE visitParameters(_, _)
visitParameters(s, parametersCount) ==
    IF ~s.ok \/ parametersCount = 0 THEN s
    ELSE IF ~(readUTF8(s.off).ok /\ CanRead(s.off + 2, 2)) THEN Fail(s)
    ELSE visitParameters(At(Emit(s, Ev("method", "VisitParameter", -1, 0, <<>>)), s.off + 4),
                         parametersCount - 1)

\* The loop over the parameters of readParameterAnnotations; s.off is
\* currentOffset and i the parameter.
RECURSIVE readParametersAnnotations(_, _, _, _, _)
readParametersAnnotations(s, i, numParameters, visible, annotationVisitor) ==
    IF ~s.ok \/ i >= numParameters THEN s
    ELSE IF ~CanRead(s.off, 2) THEN Fail(s)
    ELSE readParametersAnnotations(
             readAnnotations(At(s, s.off + 2), "method", "VisitParameterAnnotation",
                             readUnsignedShort(s.off), FALSE, visible, annotationVisitor),
             i + 1, numParameters, visible, annotationVisitor)

\* readParameterAnnotations(methodVisitor, context,
\* runtimeParameterAnnotationsOffset, visible), made when the offset is not 0.
readParameterAnnotations(s, runtimeParameterAnnotationsOffset, visible, annotationVisitor) ==
    IF ~s.ok \/ runtimeParameterAnnotationsOffset = 0 THEN s
    ELSE IF ~InBuf(runtimeParameterAnnotationsOffset) THEN Fail(s)
    ELSE LET numParameters == BitAnd(B(runtimeParameterAnnotationsOffset), 255)
             counted == Emit(s, Ev("method", "VisitAnnotableParameterCount", -1,
                                   numParameters, <<>>))
         IN At(readParametersAnnotations(At(counted, runtimeParameterAnnotationsOffset + 1),
                                         0, numParameters, visible, annotationVisitor),
               s.off)

\* readMethod from its first line to the line before "if codeOffset != 0":
\* s.off is methodInfoOffset; in the result off is the returned offset, a the
\* locals of the attribute loop and visited tells whether VisitMethod was
\* called.  methodVisitor is what VisitMethod returns.
readMethodHead(s, options, methodVisitor, annotationVisitor) ==
    IF ~(CanRead(s.off, 2) /\ readUTF8(s.off + 2).ok /\ readUTF8(s.off + 4).ok
         /\ CanRead(s.off + 6, 2))
    THEN [s |-> Fail(s), a |-> NoMethodAttributes]
    ELSE
    With([named \in {[s EXCEPT !.currentMethodName = readUTF8(s.off + 2).val,
                           !.currentMethodDescriptor = readUTF8(s.off + 4).val]} |->
        With([a \in {readMethodAttributes(
                 [NoMethodAttributes EXCEPT !.off = s.off + 8,
                                            !.accessFlags = readUnsignedShort(s.off)],
                 options, readUnsignedShort(s.off + 6))} |->
        LET flagged == [named EXCEPT !.currentMethodAccessFlags = a.accessFlags]
    IN
    IF ~a.ok \/ (a.signature # 0 /\ ~readUTF(a.signature).ok)
    THEN [s |-> Fail(flagged), a |-> a]
    ELSE
    LET visited == At(Emit(flagged, Returning(Ev("class", "VisitMethod", -1, 0, <<>>),
                                              methodVisitor)),
                      a.off)
    IN
    IF isNil(methodVisitor) THEN [s |-> visited, a |-> a]
    ELSE
    With([parameters \in {
            IF a.methodParametersOffset = 0 THEN visited
            ELSE IF ~InBuf(a.methodParametersOffset) THEN Fail(visited)
            ELSE At(visitParameters(At(visited, a.methodParametersOffset + 1),
                                    readByte(a.methodParametersOffset)),
                    visited.off)} |->
        With([default \in {
            IF ~parameters.ok \/ a.annotationDefaultOffset = 0 THEN parameters
            ELSE With([r \in {readElementValue(
                              At(Emit(parameters,
                                      Ev("method", "VisitAnnotationDefault", -1, 0, <<>>)),
                                 a.annotationDefaultOffset),
                              annotationVisitor)} |->
                    IF r.ok /\ ~isNil(annotationVisitor)
                    THEN At(Emit(r, Ev("annotation", "VisitEnd", -1, 0, <<>>)), visited.off)
                    ELSE At(r, visited.off)])} |->
        With([annotated \in {visitMemberAnnotations(default, a, "method", annotationVisitor)} |->
        With([visibleParameters \in {
            readParameterAnnotations(annotated, a.runtimeVisibleParameterAnnotationsOffset,
                                     TRUE, annotationVisitor)} |->
        With([invisibleParameters \in {
            readParameterAnnotations(visibleParameters,
                                     a.runtimeInvisibleParameterAnnotationsOffset,
                                     FALSE, annotationVisitor)} |->
       [s |-> visitAttributes(invisibleParameters, "method", a.attributes), a |-> a]])])])])])])])

-----------------------------------------------------------------------------
(* readCode: its locals, and pass 1.                                       *)
(*                                                                         *)
(* The parser state of readCode also carries readCode's locals.  Two       *)
(* fields are not locals of the Go code: nextMemberOffset is readMethod's  *)
(* currentOffset (what readMethod returns once readCode is over), and      *)
(* pass2Labels and pass2Created are history: the offsets that had a label  *)
(* when pass 2 started, and the offsets createLabel was called on during   *)
(* pass 2.                                                                 *)

NoCode ==
    [currentOffset |-> 0, maxStack |-> 0, maxLocals |-> 0, codeLength |-> 0,
     bytecodeStartOffset |-> 0, bytecodeEndOffset |-> 0,
     stackMapFrameOffset |-> 0, stackMapTableEndOffset |-> 0, compressedFrames |-> TRUE,
     localVariableTableOffset |-> 0, localVariableTypeTableOffset |-> 0,
     visibleTypeAnnotationOffsets |-> <<>>, invisibleTypeAnnotationOffsets |-> <<>>,
     attributes |-> <<>>,
     currentVisibleTypeAnnotationIndex |-> 0,
     currentVisibleTypeAnnotationBytecodeOffset |-> -1,
     currentInvisibleTypeAnnotationIndex |-> 0,
     currentInvisibleTypeAnnotationBytecodeOffset |-> -1,
     insertFrame |-> FALSE,
     nextMemberOffset |-> 0, pass2Labels |-> {}, pass2Created |-> {}]

CodeFields == DOMAIN NoCode

\* A parser state of readCode at offset off, with no callback made yet.
StartCode(ctx, locals, off) ==
    [f \in ContextFields \cup CodeFields \cup {"ok", "off", "evs"} |->
        CASE f = "ok" -> TRUE
          [] f = "off" -> off
          [] f = "evs" -> <<>>
          [] f \in CodeFields -> locals[f]
          [] OTHER -> ctx[f]]

CodeOf(s) == [f \in CodeFields |-> s[f]]

\* The loops over the entries of a tableswitch or lookupswitch in pass 1:
\* n entries of the given size, the jump offset at byte "at" of each.
RECURSIVE createSwitchLabels(_, _, _, _, _)
createSwitchLabels(s, bytecodeOffset, n, size, at) ==
    IF ~s.ok \/ n <= 0 THEN s
    ELSE IF ~CanRead(s.off + at, 4) THEN Fail(s)
    ELSE createSwitchLabels(
             At(createLabel(s, bytecodeOffset + readInt(s.off + at)), s.off + size),
             bytecodeOffset, n - 1, size, at)

\* One iteration of the first loop of readCode; s.off is currentOffset.
firstPassInsn(s) ==
    IF ~InBuf(s.off) THEN Fail(s)
    ELSE
    LET bytecodeOffset == s.off - s.bytecodeStartOffset
        opcode == BitAnd(B(s.off), 255)
        padded == s.off + 4 - BitAnd(bytecodeOffset, 3)
    IN
    CASE opcode \in FirstPassOneByteInsns -> At(s, s.off + 1)
      [] opcode \in ShortJumpInsns ->
            IF ~CanRead(s.off + 1, 2) THEN Fail(s)
            ELSE At(createLabel(s, bytecodeOffset + readShort(s.off + 1)), s.off + 3)
      [] opcode \in AsmJumpInsns ->
            IF ~CanRead(s.off + 1, 2) THEN Fail(s)
            ELSE At(createLabel(s, bytecodeOffset + readUnsignedShort(s.off + 1)), s.off + 3)
      [] opcode \in FirstPassWideJumpInsns ->
            IF ~CanRead(s.off + 1, 4) THEN Fail(s)
            ELSE At(createLabel(s, bytecodeOffset + readInt(s.off + 1)), s.off + 5)
      [] opcode = WIDE ->
            IF ~InBuf(s.off + 1) THEN Fail(s)
            ELSE IF BitAnd(B(s.off + 1), 255) = IINC THEN At(s, s.off + 6)
            ELSE At(s, s.off + 4)
      [] opcode = TABLESWITCH ->
            IF ~CanRead(padded, 12) THEN Fail(s)
            ELSE createSwitchLabels(
                     At(createLabel(s, bytecodeOffset + readInt(padded)), padded + 12),
                     bytecodeOffset, readInt(padded + 8) - readInt(padded + 4) + 1, 4, 0)
      [] opcode = LOOKUPSWITCH ->
            IF ~CanRead(padded, 8) THEN Fail(s)
            ELSE createSwitchLabels(
                     At(createLabel(s, bytecodeOffset + readInt(padded)), padded + 8),
                     bytecodeOffset, readInt(padded + 4), 8, 4)
      [] opcode \in FirstPassTwoByteInsns -> At(s, s.off + 2)
      [] opcode \in FirstPassThreeByteInsns -> At(s, s.off + 3)
      [] opcode \in FirstPassFiveByteInsns -> At(s, s.off + 5)
      [] opcode = MULTIANEWARRAY -> At(s, s.off + 4)
      [] OTHER -> AssertionError(s)

\* "for currentOffset < bytecodeEndOffset { ... }" of pass 1.
RECURSIVE firstPass(_)
firstPass(s) ==
    IF ~s.ok \/ s.off >= s.bytecodeEndOffset THEN s ELSE firstPass(firstPassInsn(s))

\* An entry of the exception table read with its start label visited first.
readExceptionTableEntryLabelFirst(s) ==
    IF ~CanRead(s.off, 8) THEN Fail(s)
    ELSE With([labelled \in {createLabel(createLabel(createLabel(s, readUnsignedShort(s.off)),
                                                      readUnsignedShort(s.off + 2)),
                                          readUnsignedShort(s.off + 4))} |->
            IF ~labelled.ok THEN labelled
            ELSE At(Emit(Emit(labelled, Ev("method", "VisitLabel", -1, 0,
                                           <<readUnsignedShort(s.off)>>)),
                         Ev("method", "VisitTryCatchBlock", -1, 0,
                            <<readUnsignedShort(s.off), readUnsignedShort(s.off + 2),
                              readUnsignedShort(s.off + 4)>>)),
                    s.off + 8)])

\* One entry of the exception table; s.off is currentOffset.
readExceptionTableEntry(s) ==
    IF ~CanRead(s.off, 8) THEN Fail(s)
    ELSE LET start   == readUnsignedShort(s.off)
             end     == readUnsignedShort(s.off + 2)
             handler == readUnsignedShort(s.off + 4)
         IN With([labelled \in {createLabel(createLabel(createLabel(s, start), end), handler)} |->
            IF ~labelled.ok THEN labelled
            ELSE IF ~(cpItem(s.off + 6).ok /\ readUTF8(cpItem(s.off + 6).val).ok)
            THEN Fail(labelled)
            ELSE At(Emit(labelled, Ev("method", "VisitTryCatchBlock", -1, 0,
                                      <<start, end, handler>>)),
                    s.off + 8)])

RECURSIVE readExceptionTable(_, _)
readExceptionTable(s, exceptionTableLength) ==
    IF ~s.ok \/ exceptionTableLength = 0 THEN s
    ELSE readExceptionTable(readExceptionTableEntry(s), exceptionTableLength - 1)

-----------------------------------------------------------------------------
(* readCode: the attributes of the Code attribute.                         *)

\* The table loop of the LOCAL_VARIABLE and RESOURCE_VARIABLE case of
\* readTypeAnnotations; s.off is currentOffset.
RECURSIVE createRangeLabels(_, _)
createRangeLabels(s, tableLength) ==
    IF ~s.ok \/ tableLength = 0 THEN s
    ELSE IF ~CanRead(s.off, 4) THEN Fail(s)
    ELSE LET startPc == readUnsignedShort(s.off)
             length  == readUnsignedShort(s.off + 2)
         IN createRangeLabels(
                createLabel(createLabel(At(s, s.off + 6), startPc), startPc + length),
                tableLength - 1)

\* One iteration of the loop of readTypeAnnotations; s.off is currentOffset.
\* annotationVisitor is what VisitTryCatchAnnotation returns.
readTypeAnnotation(s, visible, annotationVisitor) ==
    IF ~CanRead(s.off, 4) THEN Fail(s)
    ELSE
    LET targetType == readInt(s.off)
        sort == TargetSort(targetType)
        IN With([skipped \in {
            IF sort \in {typereference_LOCAL_VARIABLE, typereference_RESOURCE_VARIABLE}
            THEN IF ~CanRead(s.off + 1, 2) THEN Fail(s)
                 ELSE createRangeLabels(At(s, s.off + 3), readUnsignedShort(s.off + 1))
            ELSE IF TargetInfoSize(sort) < 0 THEN AssertionError(s)
            ELSE At(s, s.off + TargetInfoSize(sort))} |->
    IF ~skipped.ok THEN skipped
    ELSE IF ~InBuf(skipped.off) THEN Fail(skipped)
    ELSE
    LET pathLength == readByte(skipped.off) IN
    IF sort = typereference_EXCEPTION_PARAMETER
    THEN LET o == skipped.off + 1 + 2 * pathLength IN
         IF ~readUTF8(o).ok THEN Fail(skipped)
         ELSE readElementValues(
                  At(Emit(skipped, Ev("method", "VisitTryCatchAnnotation", -1,
                                      IF visible THEN 1 ELSE 0, <<>>)),
                     o + 2),
                  annotationVisitor, TRUE)
    ELSE readElementValues(At(skipped, skipped.off + 3 + 2 * pathLength), "nil", TRUE)])

\* The loop of readTypeAnnotations: [s, offsets] with offsets the
\* typeAnnotationsOffsets filled so far.
RECURSIVE readTypeAnnotationsLoop(_, _, _, _, _)
readTypeAnnotationsLoop(s, n, offsets, visible, annotationVisitor) ==
    IF ~s.ok \/ n = 0 THEN [s |-> s, offsets |-> offsets]
    ELSE readTypeAnnotationsLoop(readTypeAnnotation(s, visible, annotationVisitor), n - 1,
                                 Append(offsets, s.off), visible, annotationVisitor)

\* readTypeAnnotations(methodVisitor, context, runtimeTypeAnnotationsOffset,
\* visible): [s, offsets]; the offset of s is left where it was.
readTypeAnnotations(s, runtimeTypeAnnotationsOffset, visible, annotationVisitor) ==
    IF ~CanRead(runtimeTypeAnnotationsOffset, 2) THEN [s |-> Fail(s), offsets |-> <<>>]
    ELSE With([r \in {readTypeAnnotationsLoop(At(s, runtimeTypeAnnotationsOffset + 2),
                                          readUnsignedShort(runtimeTypeAnnotationsOffset),
                                          <<>>, visible, annotationVisitor)} |->
            [s |-> At(r.s, s.off), offsets |-> r.offsets]])

\* The loop of the LocalVariableTable case; s.off is currentOffset.
RECURSIVE createLocalVariableLabels(_, _)
createLocalVariableLabels(s, localVariableTableLength) ==
    IF ~s.ok \/ localVariableTableLength = 0 THEN s
    ELSE IF ~CanRead(s.off, 4) THEN Fail(s)
    ELSE LET startPc == readUnsignedShort(s.off)
             length  == readUnsignedShort(s.off + 2)
         IN createLocalVariableLabels(
                At(createDebugLabel(createDebugLabel(s, startPc), startPc + length),
                   s.off + 10),
                localVariableTableLength - 1)

\* The loop of the LineNumberTable case; s.off is currentOffset.
RECURSIVE createLineNumberLabels(_, _)
createLineNumberLabels(s, lineNumberTableLength) ==
    IF ~s.ok \/ lineNumberTableLength = 0 THEN s
    ELSE IF ~CanRead(s.off, 4) THEN Fail(s)
    ELSE LET startPc    == readUnsignedShort(s.off)
             lineNumber == readUnsignedShort(s.off + 2)
             labelled   == createDebugLabel(s, startPc)
         IN IF ~labelled.ok THEN labelled
            ELSE With([added \in {addLineNumber(LabelAt(labelled.labels, startPc), lineNumber)} |->
                     LET next  == [labelled EXCEPT !.labels[startPc + 1] = added.val,
                                               !.off = s.off + 4]
                 IN IF ~added.ok THEN Fail(next)
                    ELSE createLineNumberLabels(next, lineNumberTableLength - 1)])

\* One iteration of the attribute loop of readCode; s.off is currentOffset.
readCodeAttribute(s, options, annotationVisitor) ==
    IF ~(readUTF8(s.off).ok /\ CanRead(s.off + 2, 4)) THEN Fail(s)
    ELSE
    With([attributeName \in {readUTF8(s.off).val} |->
        LET attributeLength == readInt(s.off + 2)
        o == s.off + 6
        next == At(s, o + attributeLength)
    IN
    CASE attributeName = S_LocalVariableTable ->
            IF HasOption(options, SKIP_DEBUG) THEN next
            ELSE IF ~CanRead(o, 2) THEN Fail(s)
            ELSE createLocalVariableLabels(
                     [s EXCEPT !.localVariableTableOffset = o, !.off = o + 2],
                     readUnsignedShort(o))
      [] attributeName = S_LocalVariableTypeTable ->
            [next EXCEPT !.localVariableTypeTableOffset = o]
      [] attributeName = S_LineNumberTable ->
            IF HasOption(options, SKIP_DEBUG) THEN next
            ELSE IF ~CanRead(o, 2) THEN Fail(s)
            ELSE createLineNumberLabels(At(s, o + 2), readUnsignedShort(o))
      [] attributeName = S_RuntimeVisibleTypeAnnotations ->
            With([r \in {readTypeAnnotations(At(s, o), o, TRUE, annotationVisitor)} |->
            IF ~r.s.ok THEN r.s
            ELSE [r.s EXCEPT !.visibleTypeAnnotationOffsets = r.offsets,
                             !.off = o + attributeLength]])
      [] attributeName = S_RuntimeInvisibleTypeAnnotations ->
            With([r \in {readTypeAnnotations(At(s, o), o, FALSE, annotationVisitor)} |->
            IF ~r.s.ok THEN r.s
            ELSE [r.s EXCEPT !.invisibleTypeAnnotationOffsets = r.offsets,
                             !.off = o + attributeLength]])
      [] attributeName = S_StackMapTable ->
            IF HasOption(options, SKIP_FRAMES) THEN next
            ELSE [next EXCEPT !.stackMapFrameOffset = o + 2,
                              !.stackMapTableEndOffset = o + attributeLength]
      [] attributeName = S_StackMap ->
            IF HasOption(options, SKIP_FRAMES) THEN next
            ELSE [next EXCEPT !.stackMapFrameOffset = o + 2,
                              !.stackMapTableEndOffset = o + attributeLength,
                              !.compressedFrames = FALSE]
      [] OTHER -> [next EXCEPT !.attributes = <<s.off>> \o @]])

RECURSIVE readCodeAttributes(_, _, _, _)
readCodeAttributes(s, options, annotationVisitor, attributesCount) ==
    IF ~s.ok \/ attributesCount = 0 THEN s
    ELSE readCodeAttributes(readCodeAttribute(s, options, annotationVisitor), options,
                            annotationVisitor, attributesCount - 1)

-----------------------------------------------------------------------------
(* Stack map frames.  The constants of the frame package are those of the  *)
(* class-file format.  context.currentFrameLocalTypes and                  *)
(* context.currentFrameStackTypes are modelled by their lengths: only an   *)
(* index outside them matters here.                                        *)

frame_SAME_LOCALS_1_STACK_ITEM_FRAME == 64
frame_RESERVED == 128
frame_SAME_LOCALS_1_STACK_ITEM_FRAME_EXTENDED == 247
frame_CHOP_FRAME == 248
frame_SAME_FRAME_EXTENDED == 251
frame_FULL_FRAME == 255
frame_ITEM_OBJECT == 7
frame_ITEM_UNINITIALIZED == 8

\* ITEM_TOP, ITEM_INTEGER, ITEM_FLOAT, ITEM_DOUBLE, ITEM_LONG, ITEM_NULL and
\* ITEM_UNINITIALIZED_THIS: the tags readVerificationTypeInfo stores a
\* constant for.
frame_SimpleItems == 0..6

\* "for methodDescriptor[i] == ch { i++ }": the index it stops at, -1 when it
\* runs off the string.
RECURSIVE SkipChar(_, _, _)
SkipChar(methodDescriptor, i, ch) ==
    IF i >= Len(methodDescriptor) THEN -1
    ELSE IF methodDescriptor[i + 1] = ch THEN SkipChar(methodDescriptor, i + 1, ch)
    ELSE i

\* "for methodDescriptor[i] != ch { i++ }": the index it stops at, -1 when it
\* runs off the string.
RECURSIVE FindChar(_, _, _)
FindChar(methodDescriptor, i, ch) ==
    IF i >= Len(methodDescriptor) THEN -1
    ELSE IF methodDescriptor[i + 1] # ch THEN FindChar(methodDescriptor, i + 1, ch)
    ELSE i

\* The "for" loop of computeImplicitFame: i is currentMethodDescriptorOffset
\* at the top of an iteration, size is len(locals); [ok, val] with val the
\* nLocal it stores in context.currentFrameLocalCount.
RECURSIVE implicitLocals(_, _, _, _)
implicitLocals(methodDescriptor, i, nLocal, size) ==
    IF i >= Len(methodDescriptor) THEN Panicked(nLocal)
    ELSE
    LET ch == methodDescriptor[i + 1] IN
    CASE ch \in {90, 67, 66, 83, 73, 70, 74, 68} ->              \* Z C B S I F J D
            IF nLocal >= size THEN Panicked(nLocal)
            ELSE implicitLocals(methodDescriptor, i + 1, nLocal + 1, size)
      [] ch = 91 ->                                              \* '['
            LET element == SkipChar(methodDescriptor, i + 1, 91) IN
            IF element < 0 THEN Panicked(nLocal)
            ELSE LET last == IF methodDescriptor[element + 1] = 76
                             THEN FindChar(methodDescriptor, element + 1, 59)
                             ELSE element
                 IN IF last < 0 \/ nLocal >= size THEN Panicked(nLocal)
                    ELSE implicitLocals(methodDescriptor, last + 1, nLocal + 1, size)
      [] ch = 76 ->                                              \* 'L'
            LET last == FindChar(methodDescriptor, i + 1, 59) IN \* ';'
            IF last < 0 \/ nLocal >= size THEN Panicked(nLocal)
            ELSE implicitLocals(methodDescriptor, last + 1, nLocal + 1, size)
      [] OTHER -> Returned(nLocal)

computeImplicitFame(s) ==
    LET static == BitAnd(s.currentMethodAccessFlags, ACC_STATIC) # 0
        IN With([this \in {IF static THEN Returned(0)
                ELSE IF s.currentFrameLocalTypes < 1 THEN Panicked(0)
                ELSE IF s.currentMethodName # S_init /\ ~readClass(header + 2).ok
                THEN Panicked(0)
                ELSE Returned(1)} |->
       IF ~this.ok THEN Fail(s)
       ELSE With([r \in {implicitLocals(s.currentMethodDescriptor, 1, this.val,
                                    s.currentFrameLocalTypes)} |->
               IF r.ok THEN [s EXCEPT !.currentFrameLocalCount = r.val] ELSE Fail(s)])])

\* readVerificationTypeInfo(verificationTypeInfoOffset, framed, index,
\* charBuffer, labels) with verificationTypeInfoOffset = s.off and size the
\* length of framed; the returned offset is in the result.
readVerificationTypeInfo(s, size, index) ==
    IF ~s.ok THEN s
    ELSE IF ~InBuf(s.off) THEN Fail(s)
    ELSE LET tag == BitAnd(B(s.off), 255) IN
    IF tag \in frame_SimpleItems
    THEN IF index < size THEN At(s, s.off + 1) ELSE Fail(s)
    ELSE IF tag = frame_ITEM_OBJECT
    THEN IF readClass(s.off + 1).ok /\ index < size THEN At(s, s.off + 3) ELSE Fail(s)
    ELSE IF ~CanRead(s.off + 1, 2) THEN Fail(s)
    ELSE With([labelled \in {createLabel(s, readUnsignedShort(s.off + 1))} |->
         IF labelled.ok /\ index < size THEN At(labelled, s.off + 3) ELSE Fail(labelled)])

\* "for ...; index < n; index++ { currentOffset = readVerificationTypeInfo(...) }"
RECURSIVE readVerificationTypeInfos(_, _, _, _)
readVerificationTypeInfos(s, size, index, n) ==
    IF ~s.ok \/ n <= 0 THEN s
    ELSE readVerificationTypeInfos(readVerificationTypeInfo(s, size, index), size,
                                   index + 1, n - 1)

\* readStackMapFrame(stackMapFrameOffset, compressed, expand, context) with
\* stackMapFrameOffset = s.off; the returned offset is in the result.
readStackMapFrame(s, compressed, expand) ==
    IF ~s.ok THEN s
    ELSE IF compressed /\ ~InBuf(s.off) THEN Fail(s)
    ELSE
    LET frameType == IF compressed THEN BitAnd(B(s.off), 255) ELSE frame_FULL_FRAME
        s0 == IF compressed THEN [s EXCEPT !.off = @ + 1, !.currentFrameLocalCount = 0]
              ELSE [s EXCEPT !.currentFrameOffset = -1, !.currentFrameLocalCount = 0]
        wide == [s0 EXCEPT !.off = @ + 2]
        IN With([r \in {
          IF frameType < frame_SAME_LOCALS_1_STACK_ITEM_FRAME
          THEN [delta |-> frameType,
                s |-> [s0 EXCEPT !.currentFrameType = F_SAME, !.currentFrameStackCount = 0]]
          ELSE IF frameType < frame_RESERVED
          THEN [delta |-> frameType - frame_SAME_LOCALS_1_STACK_ITEM_FRAME,
                s |-> [readVerificationTypeInfo(s0, s0.currentFrameStackTypes, 0)
                          EXCEPT !.currentFrameType = F_SAME1, !.currentFrameStackCount = 1]]
          ELSE IF ~CanRead(s0.off, 2) THEN [delta |-> 0, s |-> Fail(s0)]
          ELSE
          [delta |-> readUnsignedShort(s0.off),
           s |->
            IF frameType = frame_SAME_LOCALS_1_STACK_ITEM_FRAME_EXTENDED
            THEN [readVerificationTypeInfo(wide, s0.currentFrameStackTypes, 0)
                     EXCEPT !.currentFrameType = F_SAME1, !.currentFrameStackCount = 1]
            ELSE IF frameType >= frame_CHOP_FRAME /\ frameType < frame_SAME_FRAME_EXTENDED
            THEN [wide EXCEPT !.currentFrameType = F_CHOP,
                              !.currentFrameLocalCountDelta = frame_SAME_FRAME_EXTENDED - frameType,
                              !.currentFrameLocalCount =
                                  @ - (frame_SAME_FRAME_EXTENDED - frameType),
                              !.currentFrameStackCount = 0]
            ELSE IF frameType = frame_SAME_FRAME_EXTENDED
            THEN [wide EXCEPT !.currentFrameType = F_SAME, !.currentFrameStackCount = 0]
            ELSE IF frameType < frame_FULL_FRAME
            THEN [readVerificationTypeInfos(
                      wide, s0.currentFrameLocalTypes,
                      IF expand THEN s0.currentFrameLocalCount ELSE 0,
                      frameType - frame_SAME_FRAME_EXTENDED)
                     EXCEPT !.currentFrameType = F_APPEND,
                            !.currentFrameLocalCountDelta = frameType - frame_SAME_FRAME_EXTENDED,
                            !.currentFrameLocalCount =
                                @ + (frameType - frame_SAME_FRAME_EXTENDED),
                            !.currentFrameStackCount = 0]
            ELSE IF ~CanRead(wide.off, 2) THEN Fail(wide)
            ELSE LET numberOfLocals == readUnsignedShort(wide.off)
                     IN With([locals \in {readVerificationTypeInfos(
                                   At(wide, wide.off + 2), s0.currentFrameLocalTypes, 0,
                                   numberOfLocals)} |->
                    IF ~locals.ok THEN locals
                    ELSE IF ~CanRead(locals.off, 2) THEN Fail(locals)
                    ELSE LET numberOfStackItems == readUnsignedShort(locals.off) IN
                         [readVerificationTypeInfos(
                              At(locals, locals.off + 2), s0.currentFrameStackTypes, 0,
                              numberOfStackItems)
                            EXCEPT !.currentFrameType = F_FULL,
                                   !.currentFrameLocalCountDelta = numberOfLocals,
                                   !.currentFrameLocalCount = numberOfLocals,
                                   !.currentFrameStackCount = numberOfStackItems]])]} |->
       IF ~r.s.ok THEN r.s
       ELSE createLabel([r.s EXCEPT !.currentFrameOffset = @ + r.delta + 1],
                        r.s.currentFrameOffset + r.delta + 1)])

-----------------------------------------------------------------------------
(* readCode from its first line to the start of pass 2.                    *)

expandFrames(options) == HasOption(options, EXPAND_FRAMS)

\* The delta of the other setting of EXPAND_ASM_INSNS.
wideJumpOpcodeDeltaWhenSet(options) ==
    IF HasOption(options, EXPAND_ASM_INSNS) THEN WIDE_JUMP_OPCODE_DELTA ELSE 0

wideJumpOpcodeDelta(options) ==
    IF ~HasOption(options, EXPAND_ASM_INSNS) THEN WIDE_JUMP_OPCODE_DELTA ELSE 0

\* "for offset := stackMapFrameOffset; offset < stackMapTableEndOffset-2;
\* offset++ { if b[offset] == ITEM_UNINITIALIZED ... }"
RECURSIVE createUninitializedLabels(_, _)
createUninitializedLabels(s, offset) ==
    IF ~s.ok \/ offset >= s.stackMapTableEndOffset - 2 THEN s
    ELSE IF ~InBuf(offset) THEN Fail(s)
    ELSE IF B(offset) # frame_ITEM_UNINITIALIZED THEN createUninitializedLabels(s, offset + 1)
    ELSE IF ~CanRead(offset + 1, 2) THEN Fail(s)
    ELSE LET potentialBytecodeOffset == readUnsignedShort(offset + 1) IN
         IF potentialBytecodeOffset >= s.codeLength
         THEN createUninitializedLabels(s, offset + 1)
         ELSE IF ~InBuf(s.bytecodeStartOffset + potentialBytecodeOffset) THEN Fail(s)
         ELSE IF BitAnd(B(s.bytecodeStartOffset + potentialBytecodeOffset), 255) = opcodes_NEW
         THEN createUninitializedLabels(createLabel(s, potentialBytecodeOffset), offset + 1)
         ELSE createUninitializedLabels(s, offset + 1)

\* "if stackMapFrameOffset != 0 { ... }" before pass 2.
initFrames(s, options) ==
    IF ~s.ok \/ s.stackMapFrameOffset = 0 THEN s
    ELSE LET reset == [s EXCEPT !.currentFrameOffset = -1,
                                !.currentFrameType = 0,
                                !.currentFrameLocalCount = 0,
                                !.currentFrameLocalCountDelta = 0,
                                !.currentFrameLocalTypes = s.maxLocals,
                                !.currentFrameStackCount = 0,
                                !.currentFrameStackTypes = s.maxStack]
             IN With([implicit \in {IF expandFrames(options) THEN computeImplicitFame(reset) ELSE reset} |->
            createUninitializedLabels(implicit, s.stackMapFrameOffset)])

\* getTypeAnnotationBytecodeOffset(typeAnnotationOffsets, typeAnnotationIndex):
\* [ok, val].
getTypeAnnotationBytecodeOffset(typeAnnotationOffsets, typeAnnotationIndex) ==
    IF typeAnnotationIndex >= Len(typeAnnotationOffsets) THEN Returned(-1)
    ELSE LET o == typeAnnotationOffsets[typeAnnotationIndex + 1] IN
         IF ~InBuf(o) THEN Panicked(-1)
         ELSE IF readByte(o) < typereference_INSTANCEOF THEN Returned(-1)
         ELSE IF ~CanRead(o + 1, 2) THEN Panicked(-1)
         ELSE Returned(readUnsignedShort(o + 1))

\* readCode(methodVisitor, context, codeOffset) up to the line before the
\* second "for currentOffset < bytecodeEndOffset".  annotationVisitor is what
\* VisitTryCatchAnnotation returns.
readCodeHead(s, options, codeOffset, annotationVisitor) ==
    IF ~s.ok THEN s
    ELSE IF ~CanRead(codeOffset, 8) THEN Fail(s)
    ELSE
    LET codeLength == readInt(codeOffset + 4)
        s0 == [s EXCEPT !.maxStack = readUnsignedShort(codeOffset),
                        !.maxLocals = readUnsignedShort(codeOffset + 2),
                        !.codeLength = codeLength,
                        !.bytecodeStartOffset = codeOffset + 8,
                        !.bytecodeEndOffset = codeOffset + 8 + codeLength,
                        !.labels = MakeLabels(codeLength + 1),
                        !.off = codeOffset + 8]
        IN With([scanned \in {firstPass(s0)} |->
        With([caught \in {readExceptionTable(SkipCount(scanned), ReadCount(scanned))} |->
        With([attributed \in {readCodeAttributes(SkipCount(caught), options, annotationVisitor,
                                         ReadCount(caught))} |->
        With([framed \in {initFrames(attributed, options)} |->
        LET new == IF framed.ok /\ expandFrames(options) /\ HasOption(options, EXPAND_ASM_INSNS)
               THEN Emit(framed, WithLocals(Ev("method", "VisitFrame", -1, F_NEW, <<>>),
                                            framed.maxLocals))
               ELSE framed
    IN
    IF ~new.ok THEN new
    ELSE
    LET visible == getTypeAnnotationBytecodeOffset(new.visibleTypeAnnotationOffsets, 0)
        invisible == getTypeAnnotationBytecodeOffset(new.invisibleTypeAnnotationOffsets, 0)
    IN
    IF ~visible.ok \/ ~invisible.ok THEN Fail(new)
    ELSE [new EXCEPT !.currentVisibleTypeAnnotationIndex = 0,
                     !.currentVisibleTypeAnnotationBytecodeOffset = visible.val,
                     !.currentInvisibleTypeAnnotationIndex = 0,
                     !.currentInvisibleTypeAnnotationBytecodeOffset = invisible.val,
                     !.insertFrame = FALSE,
                     !.currentOffset = new.bytecodeStartOffset,
                     !.pass2Labels = LabelOffsets(new.labels),
                     !.pass2Created = {}]])])])])

-----------------------------------------------------------------------------
(* readCode: pass 2.  s.currentOffset is currentOffset at the top of an     *)
(* iteration; the events of pass 2 carry currentBytecodeOffset.            *)

\* The history of the labels a step of pass 2 has created.
Created(before, after) ==
    [after EXCEPT !.pass2Created =
                      @ \cup (LabelOffsets(after.labels) \ LabelOffsets(before.labels))]

\* A pass 2 that visits a label at every offset, in the table or not.
acceptAnyLabel(s, options, currentBytecodeOffset) ==
    IF ~InLabels(s.labels, currentBytecodeOffset) THEN Fail(s)
    ELSE accept(s, LabelAt(s.labels, currentBytecodeOffset), currentBytecodeOffset,
                ~HasOption(options, SKIP_DEBUG))

\* "currentLabel := labels[currentBytecodeOffset]; if currentLabel != nil {
\* currentLabel.accept(methodVisitor, (parsingOptions&SKIP_DEBUG) == 0) }"
acceptCurrentLabel(s, options, currentBytecodeOffset) ==
    IF ~InLabels(s.labels, currentBytecodeOffset) THEN Fail(s)
    ELSE IF LabelAt(s.labels, currentBytecodeOffset).present
    THEN accept(s, LabelAt(s.labels, currentBytecodeOffset), currentBytecodeOffset,
                ~HasOption(options, SKIP_DEBUG))
    ELSE s

\* "for stackMapFrameOffset != 0 && (currentFrameOffset ==
\* currentBytecodeOffset || currentFrameOffset == -1) { ... }"
RECURSIVE drainFrames(_, _, _)
drainFrames(s, options, currentBytecodeOffset) ==
    IF \/ ~s.ok
       \/ s.stackMapFrameOffset = 0
       \/ ~(s.currentFrameOffset = currentBytecodeOffset \/ s.currentFrameOffset = -1)
    THEN s
    ELSE
    LET visited ==
            IF s.currentFrameOffset # -1
            THEN [Emit(s, WithLocals(Ev("method", "VisitFrame", currentBytecodeOffset,
                                        IF ~s.compressedFrames \/ expandFrames(options)
                                        THEN F_NEW ELSE s.currentFrameType,
                                        <<>>),
                                     IF ~s.compressedFrames \/ expandFrames(options)
                                     THEN s.currentFrameLocalCount
                                     ELSE s.currentFrameLocalCountDelta))
                    EXCEPT !.insertFrame = FALSE]
            ELSE s
        IN With([next \in {
            IF visited.stackMapFrameOffset < visited.stackMapTableEndOffset
            THEN With([r \in {readStackMapFrame(At(visited, visited.stackMapFrameOffset),
                                            visited.compressedFrames, expandFrames(options))} |->
                    Created(visited, [r EXCEPT !.stackMapFrameOffset = r.off,
                                               !.off = visited.off])])
            ELSE [visited EXCEPT !.stackMapFrameOffset = 0]} |->
       drainFrames(next, options, currentBytecodeOffset)])

\* An inserted frame before every instruction, pending or not.
visitInsertedFrameAlways(s, options, currentBytecodeOffset) ==
    IF ~s.ok THEN s
    ELSE [(IF HasOption(options, EXPAND_FRAMS)
           THEN Emit(s, Ev("method", "VisitFrame", currentBytecodeOffset, F_INSERT, <<>>))
           ELSE s)
            EXCEPT !.insertFrame = FALSE]

\* "if insertFrame { if parsingOptions&EXPAND_FRAMS != 0 { VisitFrame(F_INSERT,
\* ...) }; insertFrame = false }"
visitInsertedFrame(s, options, currentBytecodeOffset) ==
    IF ~s.ok \/ ~s.insertFrame THEN s
    ELSE [(IF HasOption(options, EXPAND_FRAMS)
           THEN Emit(s, Ev("method", "VisitFrame", currentBytecodeOffset, F_INSERT, <<>>))
           ELSE s)
            EXCEPT !.insertFrame = FALSE]

\* An instruction callback of the method visitor.
Insn(s, ev, arg, lbls) == Emit(s, Ev("method", ev, s.currentOffset - s.bytecodeStartOffset,
                                     arg, lbls))

\* A jump callback that is given the label after the target.
jumpPastTarget(s, ev, arg, target, size) ==
    IF ~InLabels(s.labels, target) THEN Fail(s)
    ELSE [Insn(s, ev, arg, <<target + 1>>) EXCEPT !.currentOffset = @ + size]

\* The callback ev with the label labels[target] as argument, then
\* currentOffset += size.
jump(s, ev, arg, target, size) ==
    IF ~InLabels(s.labels, target) THEN Fail(s)
    ELSE [Insn(s, ev, arg, <<target>>) EXCEPT !.currentOffset = @ + size]

\* ev with no label argument, then currentOffset += size.
plain(s, ev, arg, size) == [Insn(s, ev, arg, <<>>) EXCEPT !.currentOffset = @ + size]

\* The table loops of tableswitch and lookupswitch in pass 2: [ok, val] with
\* val the bytecode offsets of the labels read.
RECURSIVE readSwitchLabels(_, _, _, _, _, _, _)
readSwitchLabels(s, offset, currentBytecodeOffset, n, size, at, targets) ==
    IF n <= 0 THEN Returned(targets)
    ELSE IF ~CanRead(offset, size)
            \/ ~InLabels(s.labels, currentBytecodeOffset + readInt(offset + at))
    THEN Panicked(targets)
    ELSE readSwitchLabels(s, offset + size, currentBytecodeOffset, n - 1, size, at,
                          Append(targets, currentBytecodeOffset + readInt(offset + at)))

\* The bootstrap method arguments loop of invokedynamic.
RECURSIVE readBootstrapMethodArguments(_, _)
readBootstrapMethodArguments(bootstrapMethodOffset, n) ==
    IF n = 0 THEN TRUE
    ELSE /\ CanRead(bootstrapMethodOffset, 2)
         /\ readConst(readUnsignedShort(bootstrapMethodOffset)).ok
         /\ readBootstrapMethodArguments(bootstrapMethodOffset + 2, n - 1)

\* The "switch opcode" of pass 2.
secondPassInsn(s, options) ==
    LET o == s.currentOffset
        currentBytecodeOffset == o - s.bytecodeStartOffset
        opcode == BitAnd(B(o), 255)
        padded == o + 4 - BitAnd(currentBytecodeOffset, 3)
    IN
    CASE opcode \in VisitInsnOpcodes -> plain(s, "VisitInsn", opcode, 1)
      [] opcode \in LoadNOpcodes ->
            plain(s, "VisitVarInsn", ILOAD + ((opcode - ILOAD_0) \div 4), 1)
      [] opcode \in StoreNOpcodes ->
            plain(s, "VisitVarInsn", ISTORE + ((opcode - ISTORE_0) \div 4), 1)
      [] opcode \in ShortJumpInsns ->
            IF ~CanRead(o + 1, 2) THEN Fail(s)
            ELSE jump(s, "VisitJumpInsn", opcode, currentBytecodeOffset + readShort(o + 1), 3)
      [] opcode \in WideJumpInsns ->
            IF ~CanRead(o + 1, 4) THEN Fail(s)
            ELSE jump(s, "VisitJumpInsn", opcode - wideJumpOpcodeDelta(options),
                      currentBytecodeOffset + readInt(o + 1), 5)
      [] opcode \in AsmJumpInsns ->
            IF ~CanRead(o + 1, 2) THEN Fail(s)
            ELSE
            LET standard == IF opcode < ASM_IFNULL THEN opcode - ASM_OPCODE_DELTA
                            ELSE opcode - ASM_IFNULL_OPCODE_DELTA
                target == currentBytecodeOffset + readUnsignedShort(o + 1)
            IN
            IF ~InLabels(s.labels, target) THEN Fail(s)
            ELSE IF standard = GOTO \/ standard = JSR
            THEN jump(s, "VisitJumpInsn", standard + WIDE_JUMP_OPCODE_DELTA, target, 3)
            ELSE LET inverted == IF standard < GOTO THEN BitXor(standard + 1, 1) - 1
                                 ELSE BitXor(standard, 1)
                     IN With([endif \in {Created(s, createLabel(s, currentBytecodeOffset + 3))} |->
                    IF ~endif.ok THEN endif
                    ELSE [jump(Insn(endif, "VisitJumpInsn", inverted,
                                    <<currentBytecodeOffset + 3>>),
                               "VisitJumpInsn", GOTO_W, target, 3)
                            EXCEPT !.insertFrame = TRUE]])
      [] opcode = ASM_GOTO_W ->
            IF ~CanRead(o + 1, 4) THEN Fail(s)
            ELSE [jump(s, "VisitJumpInsn", GOTO_W, currentBytecodeOffset + readInt(o + 1), 5)
                    EXCEPT !.insertFrame = TRUE]
      [] opcode = WIDE ->
            IF ~InBuf(o + 1) THEN Fail(s)
            ELSE IF BitAnd(B(o + 1), 255) = IINC
            THEN IF CanRead(o + 2, 4) THEN plain(s, "VisitIincInsn", IINC, 6) ELSE Fail(s)
            ELSE IF CanRead(o + 2, 2) THEN plain(s, "VisitVarInsn", BitAnd(B(o + 1), 255), 4)
            ELSE Fail(s)
      [] opcode = TABLESWITCH ->
            IF ~CanRead(padded, 12)
               \/ ~InLabels(s.labels, currentBytecodeOffset + readInt(padded))
               \/ readInt(padded + 8) - readInt(padded + 4) + 1 < 0
            THEN Fail(s)
            ELSE With([n \in {readInt(padded + 8) - readInt(padded + 4) + 1} |->
                     With([table \in {readSwitchLabels(s, padded + 12, currentBytecodeOffset, n, 4, 0,
                                               <<>>)} |->
                    IF ~table.ok THEN Fail(s)
                    ELSE [Insn(s, "VisitTableSwitchInsn", opcode,
                               <<currentBytecodeOffset + readInt(padded)>> \o table.val)
                            EXCEPT !.currentOffset = padded + 12 + 4 * n]])])
      [] opcode = LOOKUPSWITCH ->
            IF ~CanRead(padded, 8)
               \/ ~InLabels(s.labels, currentBytecodeOffset + readInt(padded))
            THEN Fail(s)
            ELSE LET nPairs == readInt(padded + 4)
                     IN With([values \in {readSwitchLabels(s, padded + 8, currentBytecodeOffset, nPairs,
                                                8, 4, <<>>)} |->
                    IF ~values.ok THEN Fail(s)
                    ELSE [Insn(s, "VisitLookupSwitchInsn", opcode,
                               <<currentBytecodeOffset + readInt(padded)>> \o values.val)
                            EXCEPT !.currentOffset = padded + 8 + 8 * nPairs]])
      [] opcode \in VarInsnOpcodes ->
            IF InBuf(o + 1) THEN plain(s, "VisitVarInsn", opcode, 2) ELSE Fail(s)
      [] opcode \in IntInsnOpcodes ->
            IF InBuf(o + 1) THEN plain(s, "VisitIntInsn", opcode, 2) ELSE Fail(s)
      [] opcode = SIPUSH ->
            IF CanRead(o + 1, 2) THEN plain(s, "VisitIntInsn", opcode, 3) ELSE Fail(s)
      [] opcode = LDC ->
            IF InBuf(o + 1) /\ readConst(BitAnd(B(o + 1), 255)).ok
            THEN plain(s, "VisitLdcInsn", opcode, 2) ELSE Fail(s)
      [] opcode \in LdcWideOpcodes ->
            IF CanRead(o + 1, 2) /\ readConst(readUnsignedShort(o + 1)).ok
            THEN plain(s, "VisitLdcInsn", opcode, 3) ELSE Fail(s)
      [] opcode \in FieldOrMethodInsnOpcodes ->
            IF ~cpItem(o + 1).ok THEN Fail(s)
            ELSE LET cpInfoOffset == cpItem(o + 1).val IN
            IF ~cpItem(cpInfoOffset + 2).ok THEN Fail(s)
            ELSE LET nameAndTypeCpInfoOffset == cpItem(cpInfoOffset + 2).val IN
            IF ~(/\ readClass(cpInfoOffset).ok
                 /\ readUTF8(nameAndTypeCpInfoOffset).ok
                 /\ readUTF8(nameAndTypeCpInfoOffset + 2).ok
                 /\ (opcode >= INVOKEVIRTUAL => InBuf(cpInfoOffset - 1)))
            THEN Fail(s)
            ELSE plain(s, IF opcode < INVOKEVIRTUAL THEN "VisitFieldInsn"
                          ELSE "VisitMethodInsnB",
                       opcode, IF opcode = INVOKEINTERFACE THEN 5 ELSE 3)
      [] opcode = INVOKEDYNAMIC ->
            IF ~cpItem(o + 1).ok THEN Fail(s)
            ELSE LET cpInfoOffset == cpItem(o + 1).val IN
            IF ~cpItem(cpInfoOffset + 2).ok THEN Fail(s)
            ELSE LET nameAndTypeCpInfoOffset == cpItem(cpInfoOffset + 2).val IN
            IF ~(/\ readUTF8(nameAndTypeCpInfoOffset).ok
                 /\ readUTF8(nameAndTypeCpInfoOffset + 2).ok
                 /\ CanRead(cpInfoOffset, 2)
                 /\ readUnsignedShort(cpInfoOffset) < Len(s.bootstrapMethodOffsets))
            THEN Fail(s)
            ELSE LET bootstrapMethodOffset ==
                         s.bootstrapMethodOffsets[readUnsignedShort(cpInfoOffset) + 1]
                 IN
            IF ~(/\ CanRead(bootstrapMethodOffset, 4)
                 /\ readConst(readUnsignedShort(bootstrapMethodOffset)).ok
                 /\ readBootstrapMethodArguments(bootstrapMethodOffset + 4,
                                                 readUnsignedShort(bootstrapMethodOffset + 2))
                 \* handle.(*Handle)
                 /\ readConst(readUnsignedShort(bootstrapMethodOffset)).val
                        = CONSTANT_METHOD_HANDLE_TAG)
            THEN Fail(s)
            ELSE plain(s, "VisitInvokeDynamicInsn", opcode, 5)
      [] opcode \in TypeInsnOpcodes ->
            IF readClass(o + 1).ok THEN plain(s, "VisitTypeInsn", opcode, 3) ELSE Fail(s)
      [] opcode = IINC ->
            IF CanRead(o + 1, 2) THEN plain(s, "VisitIincInsn", opcode, 3) ELSE Fail(s)
      [] opcode = MULTIANEWARRAY ->
            IF readClass(o + 1).ok /\ InBuf(o + 3)
            THEN plain(s, "VisitMultiANewArrayInsn", opcode, 4) ELSE Fail(s)
      [] OTHER -> AssertionError(s)

\* The two loops that follow the switch of pass 2, one over
\* visibleTypeAnnotationOffsets and one over invisibleTypeAnnotationOffsets:
\* offsets, index and bytecodeOffset name the locals of the loop.
\* annotationVisitor is what VisitInsnAnnotation returns.
RECURSIVE visitInsnAnnotations(_, _, _, _, _, _, _)
visitInsnAnnotations(s, currentBytecodeOffset, offsets, index, bytecodeOffset, visible,
                     annotationVisitor) ==
    IF \/ ~s.ok
       \/ s[index] >= Len(s[offsets])
       \/ s[bytecodeOffset] > currentBytecodeOffset
    THEN s
    ELSE
    With([visited \in {
            IF s[bytecodeOffset] # currentBytecodeOffset THEN s
            ELSE With([target \in {readTypeAnnotationTarget(At(s, s[offsets][s[index] + 1]))} |->
                 IF ~target.ok THEN target
                 ELSE IF ~readUTF8(target.off).ok THEN Fail(target)
                 ELSE At(readElementValues(
                             At(Emit(target, Ev("method", "VisitInsnAnnotation",
                                                currentBytecodeOffset,
                                                IF visible THEN 1 ELSE 0, <<>>)),
                                target.off + 2),
                             annotationVisitor, TRUE),
                         s.off)])} |->
        LET next == getTypeAnnotationBytecodeOffset(s[offsets], s[index] + 1)
    IN
    IF ~visited.ok THEN visited
    ELSE IF ~next.ok THEN Fail(visited)
    ELSE visitInsnAnnotations([visited EXCEPT ![index] = @ + 1, ![bytecodeOffset] = next.val],
                              currentBytecodeOffset, offsets, index, bytecodeOffset, visible,
                              annotationVisitor)])

\* An iteration that drains the stack-map frames and the pending inserted
\* frame before it visits the label of the offset.
secondPassIterationFramesFirst(s, options, annotationVisitor) ==
    IF ~InBuf(s.currentOffset) THEN Fail(s)
    ELSE
    LET currentBytecodeOffset == s.currentOffset - s.bytecodeStartOffset
        IN With([framed \in {visitInsertedFrame(drainFrames(s, options, currentBytecodeOffset),
                                     options, currentBytecodeOffset)} |->
        With([labelled \in {IF framed.ok
                            THEN acceptCurrentLabel(framed, options, currentBytecodeOffset)
                            ELSE framed} |->
        With([visited \in {IF labelled.ok THEN secondPassInsn(labelled, options)
                           ELSE labelled} |->
        LET visible == visitInsnAnnotations(visited, currentBytecodeOffset,
                       "visibleTypeAnnotationOffsets", "currentVisibleTypeAnnotationIndex",
                       "currentVisibleTypeAnnotationBytecodeOffset", TRUE, annotationVisitor)
    IN visitInsnAnnotations(visible, currentBytecodeOffset,
           "invisibleTypeAnnotationOffsets", "currentInvisibleTypeAnnotationIndex",
           "currentInvisibleTypeAnnotationBytecodeOffset", FALSE, annotationVisitor)])])])

\* One iteration of the second "for currentOffset < bytecodeEndOffset".
secondPassIteration(s, options, annotationVisitor) ==
    IF ~InBuf(s.currentOffset) THEN Fail(s)
    ELSE
    LET currentBytecodeOffset == s.currentOffset - s.bytecodeStartOffset
        IN With([labelled \in {acceptCurrentLabel(s, options, currentBytecodeOffset)} |->
        With([framed \in {visitInsertedFrame(drainFrames(labelled, options, currentBytecodeOffset),
                                     options, currentBytecodeOffset)} |->
        With([visited \in {IF framed.ok THEN secondPassInsn(framed, options) ELSE framed} |->
        LET visible == visitInsnAnnotations(visited, currentBytecodeOffset,
                       "visibleTypeAnnotationOffsets", "currentVisibleTypeAnnotationIndex",
                       "currentVisibleTypeAnnotationBytecodeOffset", TRUE, annotationVisitor)
    IN visitInsnAnnotations(visible, currentBytecodeOffset,
           "invisibleTypeAnnotationOffsets", "currentInvisibleTypeAnnotationIndex",
           "currentInvisibleTypeAnnotationBytecodeOffset", FALSE, annotationVisitor)])])])

-----------------------------------------------------------------------------
(* readCode after pass 2, and the end of readMethod.                       *)

\* The loop that fills typeTable: the triples <<start_pc, index, offset of
\* the signature>>, the last entry of the attribute first; [ok, val].
RECURSIVE readTypeTable(_, _, _)
readTypeTable(currentOffset, n, typeTable) ==
    IF n = 0 THEN Returned(typeTable)
    ELSE IF ~CanRead(currentOffset, 10) THEN Panicked(typeTable)
    ELSE readTypeTable(currentOffset + 10, n - 1,
                       << <<readUnsignedShort(currentOffset),
                            readUnsignedShort(currentOffset + 8),
                            currentOffset + 6>> >> \o typeTable)

\* "for i := 0; i < len(typeTable); i += 3 { if ... { signature = readUTF8(...);
\* break } }": whether it returns.
RECURSIVE readSignature(_, _, _)
readSignature(typeTable, startPc, index) ==
    IF typeTable = <<>> THEN TRUE
    ELSE IF Head(typeTable)[1] = startPc /\ Head(typeTable)[2] = index
    THEN readUTF8(Head(typeTable)[3]).ok
    ELSE readSignature(Tail(typeTable), startPc, index)

\* The VisitLocalVariable loop; s.off is currentOffset.
RECURSIVE visitLocalVariables(_, _, _)
visitLocalVariables(s, typeTable, localVariableTableLength) ==
    IF ~s.ok \/ localVariableTableLength = 0 THEN s
    ELSE IF ~(CanRead(s.off, 10) /\ readUTF8(s.off + 4).ok /\ readUTF8(s.off + 6).ok)
    THEN Fail(s)
    ELSE LET startPc == readUnsignedShort(s.off)
             length  == readUnsignedShort(s.off + 2)
             index   == readUnsignedShort(s.off + 8)
         IN IF ~(/\ readSignature(typeTable, startPc, index)
                 /\ InLabels(s.labels, startPc)
                 /\ InLabels(s.labels, startPc + length))
            THEN Fail(s)
            ELSE visitLocalVariables(
                     At(Emit(s, Ev("method", "VisitLocalVariable", -1, index,
                                   <<startPc, startPc + length>>)),
                        s.off + 10),
                     typeTable, localVariableTableLength - 1)

\* "if localVariableTableOffset != 0 && (parsingOptions&SKIP_DEBUG) == 0 { ... }"
visitLocalVariableTable(s, options) ==
    IF ~s.ok \/ s.localVariableTableOffset = 0 \/ HasOption(options, SKIP_DEBUG) THEN s
    ELSE
    With([typeTable \in {
            IF s.localVariableTypeTableOffset = 0 THEN Returned(<<>>)
            ELSE IF ~CanRead(s.localVariableTypeTableOffset, 2) THEN Panicked(<<>>)
            ELSE readTypeTable(s.localVariableTypeTableOffset + 2,
                               readUnsignedShort(s.localVariableTypeTableOffset), <<>>)} |->
       IF ~typeTable.ok \/ ~CanRead(s.localVariableTableOffset, 2) THEN Fail(s)
       ELSE visitLocalVariables(At(s, s.localVariableTableOffset + 2), typeTable.val,
                                readUnsignedShort(s.localVariableTableOffset))])

\* The loops over visibleTypeAnnotationOffsets and
\* invisibleTypeAnnotationOffsets that follow: offsets is the slice the loop
\* runs over and whose element readTypeAnnotationTarget gets; both loops
\* read the target type at visibleTypeAnnotationOffsets[i].
RECURSIVE visitLocalVariableAnnotations(_, _, _, _, _)
visitLocalVariableAnnotations(s, offsets, i, visible, annotationVisitor) ==
    IF ~s.ok \/ i >= Len(offsets) THEN s
    ELSE IF i >= Len(s.visibleTypeAnnotationOffsets)
            \/ ~InBuf(s.visibleTypeAnnotationOffsets[i + 1])
    THEN Fail(s)
    ELSE
    LET targetType == readByte(s.visibleTypeAnnotationOffsets[i + 1]) IN
    IF targetType \notin {typereference_LOCAL_VARIABLE, typereference_RESOURCE_VARIABLE}
    THEN visitLocalVariableAnnotations(s, offsets, i + 1, visible, annotationVisitor)
    ELSE With([target \in {readTypeAnnotationTarget(At(s, offsets[i + 1]))} |->
         IF ~target.ok THEN target
         ELSE IF ~readUTF8(target.off).ok THEN Fail(target)
         ELSE visitLocalVariableAnnotations(
                  readElementValues(
                      At(Emit(target, Ev("method", "VisitLocalVariableAnnotation", -1,
                                         IF visible THEN 1 ELSE 0, <<>>)),
                         target.off + 2),
                      annotationVisitor, TRUE),
                  offsets, i + 1, visible, annotationVisitor)])

\* readCode from the line after pass 2 to its end, then the VisitEnd of
\* readMethod.  annotationVisitor is what VisitLocalVariableAnnotation returns.
readCodeEnd(s, options, annotationVisitor) ==
    IF ~InLabels(s.labels, s.codeLength) THEN Fail(s)
    ELSE
    LET ended == IF LabelAt(s.labels, s.codeLength).present
                 THEN Emit(s, Ev("method", "VisitLabel", s.codeLength, 0, <<s.codeLength>>))
                 ELSE s
        IN With([variables \in {visitLocalVariableTable(ended, options)} |->
        With([visible \in {visitLocalVariableAnnotations(variables, variables.visibleTypeAnnotationOffsets,
                                                 0, TRUE, annotationVisitor)} |->
        With([invisible \in {visitLocalVariableAnnotations(visible,
                                                   visible.invisibleTypeAnnotationOffsets,
                                                   0, FALSE, annotationVisitor)} |->
        LET attributed == visitAttributes(invisible, "method", invisible.attributes)
    IN IF ~attributed.ok THEN attributed
       ELSE Emit(Emit(attributed, Ev("method", "VisitMaxs", -1, 0, <<>>)),
                 Ev("method", "VisitEnd", -1, 0, <<>>))])])])

-----------------------------------------------------------------------------
(* Accept, step by step: the part of AcceptB before the fields, one        *)
(* readField or readMethod per member (a readMethod with a Code attribute  *)
(* stops where pass 2 starts, then runs pass 2 one instruction at a time), *)
(* and the final VisitEnd.  A panic ends the call: no later step is taken. *)

\* What a step that ran the parser to state r leaves behind.
Ran(r, nextPc) ==
    /\ events' = events \o r.evs
    /\ context' = ContextOf(r)
    /\ pc' = IF r.ok THEN nextPc ELSE "panicked"
    /\ err' = IF r.ok THEN err ELSE "panic"

readerVars == <<b, cpInfoOffsets, header, maxStringLength, cacheVars, numRes, input>>

\* AcceptB(classVisitor, attributePrototypes, parsingOptions) down to
\* "fieldsCount := c.readUnsignedShort(currentOffset); currentOffset += 2".
AcceptHead ==
    /\ pc = "ready"
    /\ \E options \in AllOptions, moduleVisitor \in {"nil", "visitor"},
          annotationVisitor \in Visitors :
          \E r \in {SkipCount(acceptHead(NewContext, options, moduleVisitor, annotationVisitor))} :
             /\ parsingOptions' = options
             /\ Ran(r, "fields")
             /\ fieldsCount' = IF r.ok THEN readUnsignedShort(r.off - 2) ELSE 0
             /\ acceptOffset' = IF r.ok THEN r.off ELSE 0
    /\ methodsCount' = 0
    /\ code' = NoCode
    /\ UNCHANGED readerVars

\* One iteration of "for fieldsCount > 0".
ReadField ==
    /\ pc = "fields"
    /\ fieldsCount > 0
    /\ \E fieldVisitor \in {"nil", "visitor"}, annotationVisitor \in Visitors :
          \E r \in {readField(Start(context, acceptOffset), fieldVisitor, annotationVisitor)} :
             /\ Ran(r, "fields")
             /\ acceptOffset' = IF r.ok THEN r.off ELSE acceptOffset
    /\ fieldsCount' = fieldsCount - 1
    /\ UNCHANGED <<readerVars, parsingOptions, methodsCount, code>>

\* "methodsCount := c.readUnsignedShort(currentOffset); currentOffset += 2"
ReadMethodsCount ==
    /\ pc = "fields"
    /\ fieldsCount = 0
    /\ \E r \in {SkipCount(Start(context, acceptOffset))} :
          /\ Ran(r, "methods")
          /\ methodsCount' = IF r.ok THEN readUnsignedShort(acceptOffset) ELSE 0
          /\ acceptOffset' = r.off
    /\ UNCHANGED <<readerVars, parsingOptions, fieldsCount, code>>

\* One iteration of "for methodsCount > 0": readMethod, to its end when
\* there is no Code attribute to read, to the start of pass 2 otherwise.
ReadMethod ==
    /\ pc = "methods"
    /\ methodsCount > 0
    /\ \E methodVisitor \in {"nil", "visitor"}, annotationVisitor \in Visitors :
          \E h \in {readMethodHead(StartCode(context, NoCode, acceptOffset), parsingOptions,
                                  methodVisitor, annotationVisitor)} :
             IF ~h.s.ok \/ isNil(methodVisitor)
             THEN /\ Ran(h.s, "methods")
                  /\ acceptOffset' = IF h.s.ok THEN h.s.off ELSE acceptOffset
                  /\ code' = NoCode
             ELSE IF h.a.codeOffset = 0
             THEN /\ Ran(Emit(h.s, Ev("method", "VisitEnd", -1, 0, <<>>)), "methods")
                  /\ acceptOffset' = h.s.off
                  /\ code' = NoCode
             ELSE \E r \in {readCodeHead(
                               [Emit(h.s, Ev("method", "VisitCode", -1, 0, <<>>))
                                   EXCEPT !.nextMemberOffset = h.s.off],
                               parsingOptions, h.a.codeOffset, annotationVisitor)} :
                     /\ Ran(r, "code")
                     /\ code' = CodeOf(r)
                     /\ acceptOffset' = acceptOffset
    /\ methodsCount' = methodsCount - 1
    /\ UNCHANGED <<readerVars, parsingOptions, fieldsCount>>

\* One iteration of the second "for currentOffset < bytecodeEndOffset".
CodeInsn ==
    /\ pc = "code"
    /\ code.currentOffset < code.bytecodeEndOffset
    /\ \E annotationVisitor \in Visitors :
          \E r \in {secondPassIteration(StartCode(context, code, 0), parsingOptions,
                                       annotationVisitor)} :
             /\ Ran(r, "code")
             /\ code' = CodeOf(r)
    /\ UNCHANGED <<readerVars, parsingOptions, acceptOffset, fieldsCount, methodsCount>>

\* The rest of readCode, the VisitEnd of readMethod and its return.
CodeEnd ==
    /\ pc = "code"
    /\ code.currentOffset >= code.bytecodeEndOffset
    /\ \E annotationVisitor \in Visitors :
          \E r \in {readCodeEnd(StartCode(context, code, 0), parsingOptions, annotationVisitor)} :
             /\ Ran(r, "methods")
             /\ code' = CodeOf(r)
             /\ acceptOffset' = IF r.ok THEN code.nextMemberOffset ELSE acceptOffset
    /\ UNCHANGED <<readerVars, parsingOptions, fieldsCount, methodsCount>>

\* "classVisitor.VisitEnd()"
AcceptEnd ==
    /\ pc = "methods"
    /\ methodsCount = 0
    /\ events' = Append(events, Ev("class", "VisitEnd", -1, 0, <<>>))
    /\ pc' = "done"
    /\ UNCHANGED <<readerVars, err, parsingOptions, acceptOffset, fieldsCount, methodsCount,
                   context, code>>

-----------------------------------------------------------------------------
(* Class files given to Accept.  Every two-byte and four-byte value of     *)
(* these files is below 256, so the readers return what the class-file     *)
(* format says.                                                            *)

MaxFields == 1

MaxMethods == 2

Utf8(str) == <<CONSTANT_UTF8_TAG>> \o U2(Len(str)) \o str

S_A == << 65 >>  \* "A"

S_m == << 109 >>  \* "m"

S_f == << 102 >>  \* "f"

S_I == << 73 >>  \* "I"

S_NoArgs == << 40, 41, 86 >>  \* "()V"

S_Foo == << 70, 111, 111 >>  \* "Foo"

\* The constant pool of every class file: entry i is PoolEntries[i].
PoolEntries ==
    << Utf8(S_A),                                   \* 1
       <<CONSTANT_CLASS_TAG, 0, 1>>,                \* 2: class A
       Utf8(S_m), Utf8(S_NoArgs),                   \* 3, 4
       Utf8(S_f), Utf8(S_I),                        \* 5, 6
       <<CONSTANT_INTEGER_TAG, 0, 0, 0, 7>>,        \* 7
       <<CONSTANT_NAME_AND_TYPE_TAG, 0, 3, 0, 4>>,  \* 8: m ()V
       <<CONSTANT_METHODREF_TAG, 0, 2, 0, 8>>,      \* 9: A.m ()V
       <<CONSTANT_NAME_AND_TYPE_TAG, 0, 5, 0, 6>>,  \* 10: f I
       <<CONSTANT_FIELDREF_TAG, 0, 2, 0, 10>>,      \* 11: A.f I
       <<CONSTANT_MODULE_TAG, 0, 1>>,               \* 12: module A
       Utf8(S_Foo),
       Utf8(S_Code), Utf8(S_SourceFile), Utf8(S_InnerClasses), Utf8(S_EnclosingMethod),
       Utf8(S_Signature), Utf8(S_Deprecated), Utf8(S_SourceDebugExtension),
       Utf8(S_RuntimeVisibleAnnotations), Utf8(S_RuntimeInvisibleAnnotations),
       Utf8(S_RuntimeVisibleTypeAnnotations), Utf8(S_Module), Utf8(S_BootstrapMethods),
       Utf8(S_ConstantValue), Utf8(S_Exceptions), Utf8(S_AnnotationDefault),
       Utf8(S_RuntimeVisibleParameterAnnotations), Utf8(S_MethodParameters),
       Utf8(S_LocalVariableTable), Utf8(S_LocalVariableTypeTable), Utf8(S_LineNumberTable),
       Utf8(S_StackMapTable) >>

\* The index of the UTF8 entry of str.
NameIndex(str) == CHOOSE i \in 1..Len(PoolEntries) : PoolEntries[i] = Utf8(str)

\* attribute_info: name, length, body.
Attr(name, body) == U2(NameIndex(name)) \o U4(Len(body)) \o body

\* field_info and method_info: access_flags, name, descriptor, attributes.
Member(accessFlags, name, attrs) ==
    U2(accessFlags) \o U2(NameIndex(name))
        \o U2(NameIndex(IF name = S_f THEN S_I ELSE S_NoArgs))
        \o U2(Len(attrs)) \o Flatten(attrs)

\* The Code attribute: max_stack 2, max_locals 2, the bytecode, the
\* exception table (whole entries) and the attributes.
CodeAttr(bytecode, exceptionTable, attrs) ==
    Attr(S_Code, U2(2) \o U2(2) \o U4(Len(bytecode)) \o bytecode
                 \o U2(Len(exceptionTable)) \o Flatten(exceptionTable)
                 \o U2(Len(attrs)) \o Flatten(attrs))

\* An annotation of type "I" with the pair f = 7.
AnAnnotation == U2(NameIndex(S_I)) \o U2(1) \o U2(NameIndex(S_f)) \o <<73>> \o U2(7)

ClassAttrMenu ==
    { "none", "source", "inner1", "inner0", "misc", "annotations", "typeAnnotations",
      "module", "enclosing", "debugExtension", "bootstrap" }

ClassAttrs(kind) ==
    CASE kind = "none" -> <<>>
      [] kind = "source" -> << Attr(S_SourceFile, U2(NameIndex(S_A))) >>
      [] kind = "inner1" -> << Attr(S_InnerClasses, U2(1) \o U2(2) \o U2(0) \o U2(0) \o U2(0)) >>
      [] kind = "inner0" -> << Attr(S_InnerClasses, U2(0)) >>
      [] kind = "misc" ->
            << Attr(S_Deprecated, <<>>), Attr(S_Foo, <<1, 2>>),
               Attr(S_Signature, U2(NameIndex(S_NoArgs))) >>
      [] kind = "annotations" ->
            << Attr(S_RuntimeVisibleAnnotations, U2(1) \o AnAnnotation),
               Attr(S_RuntimeInvisibleAnnotations, U2(1) \o U2(NameIndex(S_I)) \o U2(0)) >>
      [] kind = "typeAnnotations" -> << Attr(S_RuntimeVisibleTypeAnnotations, U2(0)) >>
      [] kind = "module" ->
            << Attr(S_Module, U2(12) \o U2(0) \o U2(0) \o Rep(0, 10)) >>
      [] kind = "enclosing" -> << Attr(S_EnclosingMethod, U2(2) \o U2(8)) >>
      [] kind = "debugExtension" -> << Attr(S_SourceDebugExtension, <<97, 98>>) >>
      [] kind = "bootstrap" -> << Attr(S_BootstrapMethods, U2(0)) >>

FieldMenu == << "plain", "constant" >>

Field(kind) ==
    CASE kind = "plain" -> Member(1, S_f, <<>>)
      [] kind = "constant" ->
            Member(25, S_f, << Attr(S_ConstantValue, U2(7)),
                               Attr(S_RuntimeVisibleAnnotations, U2(1) \o AnAnnotation),
                               Attr(S_Deprecated, <<>>) >>)

MethodMenu ==
    << "abstract", "simple", "branch", "lines", "frames", "asm", "wide", "misc", "switch",
       "annotated" >>

Method(kind) ==
    CASE kind = "abstract" ->
            Member(1025, S_m, << Attr(S_Exceptions, U2(1) \o U2(2)) >>)
      [] kind = "simple" ->
            Member(1, S_m, << CodeAttr(<<ICONST_0, POP, RETURN>>, <<>>, <<>>) >>)
      [] kind = "branch" ->
            \* 0: iconst_0  1: ifeq 5  4: nop  5: return; try 0..4 handler 5
            Member(1, S_m,
                << CodeAttr(<<ICONST_0, IFEQ, 0, 4, NOP, RETURN>>,
                            << U2(0) \o U2(4) \o U2(5) \o U2(0) >>,
                            << Attr(S_LineNumberTable, U2(1) \o U2(0) \o U2(3)),
                               Attr(S_LocalVariableTable,
                                    U2(1) \o U2(0) \o U2(6) \o U2(NameIndex(S_f))
                                          \o U2(NameIndex(S_I)) \o U2(0)),
                               Attr(S_LocalVariableTypeTable,
                                    U2(1) \o U2(0) \o U2(6) \o U2(NameIndex(S_f))
                                          \o U2(NameIndex(S_I)) \o U2(0)) >>) >>)
      [] kind = "lines" ->
            \* two lines (7 and 9) at offset 0, one at offset 2
            Member(1, S_m,
                << CodeAttr(<<NOP, NOP, RETURN>>, <<>>,
                            << Attr(S_LineNumberTable,
                                    U2(3) \o U2(0) \o U2(7) \o U2(0) \o U2(9)
                                          \o U2(2) \o U2(10)) >>) >>)
      [] kind = "frames" ->
            \* a same_frame at offset 1
            Member(1, S_m,
                << CodeAttr(<<NOP, NOP, RETURN>>, <<>>,
                            << Attr(S_StackMapTable, U2(1) \o <<1>>) >>) >>)
      [] kind = "asm" ->
            \* 0: iconst_0  1: ASM_IFEQ 5  4: nop  5: return
            Member(1, S_m,
                << CodeAttr(<<ICONST_0, ASM_IFEQ, 0, 4, NOP, RETURN>>, <<>>, <<>>) >>)
      [] kind = "wide" ->
            \* 0: goto_w 5  5: ASM_GOTO_W 10  10: return
            Member(1, S_m,
                << CodeAttr(<<GOTO_W, 0, 0, 0, 5, ASM_GOTO_W, 0, 0, 0, 5, RETURN>>,
                            <<>>, <<>>) >>)
      [] kind = "misc" ->
            Member(9, S_m,
                << CodeAttr(<<BIPUSH, 5, ISTORE_1, IINC, 1, 1, ILOAD, 1, POP, LDC, 7, POP,
                              GETSTATIC, 0, 11, POP, INVOKESTATIC, 0, 9,
                              opcodes_NEW, 0, 2, POP, RETURN>>,
                            <<>>, << Attr(S_Foo, <<1>>) >>) >>)
      [] kind = "switch" ->
            \* 0: tableswitch (default 20, one entry 20)
            \* 20: lookupswitch (default 40, one pair 40)  40: return
            Member(9, S_m,
                << CodeAttr(<<TABLESWITCH, 0, 0, 0>> \o U4(20) \o U4(0) \o U4(0) \o U4(20)
                              \o <<LOOKUPSWITCH, 0, 0, 0>> \o U4(20) \o U4(1) \o U4(0) \o U4(20)
                              \o <<RETURN>>,
                            <<>>, <<>>) >>)
      [] kind = "annotated" ->
            Member(1025, S_m,
                << Attr(S_MethodParameters, <<1>> \o U2(NameIndex(S_f)) \o U2(0)),
                   Attr(S_AnnotationDefault, <<73>> \o U2(7)),
                   Attr(S_RuntimeVisibleAnnotations, U2(1) \o AnAnnotation),
                   Attr(S_RuntimeVisibleParameterAnnotations, <<1>> \o U2(1) \o AnAnnotation),
                   Attr(S_Signature, U2(NameIndex(S_NoArgs))) >>)

\* n members of the menu, from its k-th one on, cyclically.
Run(menu, k, n) == [i \in 1..n |-> menu[((k + i - 2) % Len(menu)) + 1]]

\* What class files are assembled from: the class attributes, the fields
\* and the methods.
Inputs ==
    { [attrs |-> kind, fields |-> <<"plain">>, methods |-> <<"abstract">>] :
          kind \in ClassAttrMenu }
    \cup { [attrs |-> "none", fields |-> Run(FieldMenu, (k + 1) \div 2, MaxFields),
            methods |-> Run(MethodMenu, k, MaxMethods)] :
                k \in {j \in 1..Len(MethodMenu) : j % 2 = 1} }

FieldsOf(in) == [i \in 1..Len(in.fields) |-> Field(in.fields[i])]

MethodsOf(in) == [i \in 1..Len(in.methods) |-> Method(in.methods[i])]

\* magic, version 52.0, the constant pool, access_flags, this_class,
\* super_class and interfaces_count.
ClassFileHead ==
    Magic \o U2(0) \o U2(52) \o U2(Len(PoolEntries) + 1) \o Flatten(PoolEntries)
          \o U2(33) \o U2(2) \o U2(0) \o U2(0)

ClassFile(in) ==
    ClassFileHead
        \o U2(Len(in.fields)) \o Flatten(FieldsOf(in))
        \o U2(Len(in.methods)) \o Flatten(MethodsOf(in))
        \o U2(Len(ClassAttrs(in.attrs))) \o Flatten(ClassAttrs(in.attrs))

\* Where the k-th field and the k-th method of the input end in the file.
FieldEnd(in, k) ==
    Len(ClassFileHead) + 2 + Len(Flatten(SubSeq(FieldsOf(in), 1, k)))

MethodEnd(in, k) ==
    FieldEnd(in, Len(in.fields)) + 2 + Len(Flatten(SubSeq(MethodsOf(in), 1, k)))

Init ==
    /\ input \in Inputs
    /\ b = ClassFile(input)
    /\ pc = "new"
    /\ err = ""
    /\ cpInfoOffsets = <<>>
    /\ header = 0
    /\ maxStringLength = 0
    /\ constantUtf8Values = <<>>
    /\ utf8Calls = <<>>
    /\ numRes = NoRead
    /\ parsingOptions = 0
    /\ events = <<>>
    /\ acceptOffset = 0
    /\ fieldsCount = 0
    /\ methodsCount = 0
    /\ context = <<>>
    /\ code = <<>>

Next ==
    \/ NewClassReader
    \/ AcceptHead
    \/ ReadField
    \/ ReadMethodsCount
    \/ ReadMethod
    \/ CodeInsn
    \/ CodeEnd
    \/ AcceptEnd

Spec == Init /\ [][Next]_vars

-----------------------------------------------------------------------------
(* The callbacks of one Accept call, as the properties below read them.    *)

IsEvent(e, v, ev) == e.v = v /\ e.ev = ev

EventsOf(v, ev) == { i \in 1..Len(events) : IsEvent(events[i], v, ev) }

\* Accept is over: it has returned, or it has panicked.
AcceptOver == pc \in {"done", "panicked"}

OptionSet(flag) == (parsingOptions \div flag) % 2 = 1

\* The phase of the class visitor a callback belongs to, 0 for the callbacks
\* made to the visitors of a field, a method or an annotation.
Phase(e) ==
    CASE IsEvent(e, "class", "Visit") -> 1
      [] IsEvent(e, "class", "VisitSource") -> 2
      [] IsEvent(e, "class", "VisitModule") \/ e.v = "module" -> 3
      [] IsEvent(e, "class", "VisitOuterClass") -> 4
      [] IsEvent(e, "class", "VisitAnnotation") \/ IsEvent(e, "class", "VisitTypeAnnotation") -> 5
      [] IsEvent(e, "class", "VisitAttribute") -> 6
      [] IsEvent(e, "class", "VisitInnerClass") -> 7
      [] IsEvent(e, "class", "VisitField") -> 8
      [] IsEvent(e, "class", "VisitMethod") -> 9
      [] IsEvent(e, "class", "VisitEnd") -> 10
      [] OTHER -> 0

\* The index of the VisitMethod callback of the method being read (of the
\* last method read), 0 before the first one.
MethodStart ==
    IF EventsOf("class", "VisitMethod") = {} THEN 0
    ELSE CHOOSE i \in EventsOf("class", "VisitMethod") :
             \A j \in EventsOf("class", "VisitMethod") : j <= i

\* The callbacks made to the visitor of that method.
MethodEvents == { i \in (MethodStart + 1)..Len(events) : events[i].v = "method" }

\* The callbacks of a method visitor that visit an instruction.
InsnEvents ==
    { "VisitInsn", "VisitIntInsn", "VisitVarInsn", "VisitTypeInsn", "VisitFieldInsn",
      "VisitMethodInsnB", "VisitInvokeDynamicInsn", "VisitJumpInsn", "VisitLdcInsn",
      "VisitIincInsn", "VisitTableSwitchInsn", "VisitLookupSwitchInsn",
      "VisitMultiANewArrayInsn" }

\* readCode has been called for the method of MethodStart and has got to
\* pass 2 at least.
InOrAfterPass2 ==
    /\ MethodStart # 0
    /\ code # <<>>
    /\ code.bytecodeEndOffset # 0

\* That call of readCode is over: it has returned or panicked.
ReadCodeOver == InOrAfterPass2 /\ pc \in {"methods", "done", "panicked"}

-----------------------------------------------------------------------------
(* C1: one Accept call invokes the class visitor in the canonical phase    *)
(* order (Visit, VisitSource, the module, VisitOuterClass, the             *)
(* annotations, VisitAttribute, VisitInnerClass, the fields, the methods,  *)
(* VisitEnd), with Visit exactly once and first, VisitSource and           *)
(* VisitOuterClass at most once, and VisitEnd exactly once and last.       *)
C1_CanonicalPhaseOrder ==
    /\ \A i, j \in 1..Len(events) :
          (i < j /\ Phase(events[i]) # 0 /\ Phase(events[j]) # 0)
              => Phase(events[i]) <= Phase(events[j])
    /\ \A ev \in {"Visit", "VisitSource", "VisitOuterClass", "VisitEnd"} :
          Cardinality(EventsOf("class", ev)) <= 1
    /\ events # <<>> => IsEvent(events[1], "class", "Visit")
    /\ AcceptOver => /\ events # <<>>
                     /\ IsEvent(events[Len(events)], "class", "VisitEnd")

-----------------------------------------------------------------------------
(* C2: when VisitField or VisitMethod returns nil, no callback is made for *)
(* the subtree of that member, readField and readMethod return the offset  *)
(* of the next member whatever the child visitor and the options are, and  *)
(* so every later member is reported and the class VisitEnd is called.     *)
C2_NilChildSkipsSubtreeOnly ==
    /\ \A i \in EventsOf("class", "VisitField") \cup EventsOf("class", "VisitMethod") :
          (events[i].ret = "nil" /\ i < Len(events)) => events[i + 1].v = "class"
    /\ pc = "fields" => acceptOffset = FieldEnd(input, Len(input.fields) - fieldsCount)
    /\ pc = "methods" => acceptOffset = MethodEnd(input, Len(input.methods) - methodsCount)
    /\ (pc = "panicked" /\ events # <<>> /\ Phase(events[Len(events)]) \in {8, 9})
          => events[Len(events)].ret # "nil"
    /\ pc = "done" =>
          /\ Cardinality(EventsOf("class", "VisitField")) = Len(input.fields)
          /\ Cardinality(EventsOf("class", "VisitMethod")) = Len(input.methods)
          /\ IsEvent(events[Len(events)], "class", "VisitEnd")

\* Accept has returned; a method with a Code attribute got a nil visitor
\* under some options, and a later method was reported.
C2_Witness ==
    /\ pc = "done"
    /\ parsingOptions # 0
    /\ \E i, j \in EventsOf("class", "VisitMethod") :
          /\ i < j
          /\ events[i].ret = "nil"
          /\ input.methods[1] # "abstract"
    /\ \E i \in EventsOf("class", "VisitField") : events[i].ret = "nil"

-----------------------------------------------------------------------------
(* C3: every VisitTryCatchBlock callback of a method is made before the    *)
(* first VisitLabel callback of that method.                               *)
C3_TryCatchBlocksBeforeLabels ==
    \A i \in EventsOf("method", "VisitLabel"), j \in EventsOf("method", "VisitTryCatchBlock") :
        i < j => \E k \in EventsOf("class", "VisitMethod") : i < k /\ k < j

\* A method with an exception table has had its labels visited.
C3_Witness ==
    \E j \in EventsOf("method", "VisitTryCatchBlock") :
        /\ j > MethodStart
        /\ \A o \in {events[j].lbls[1], events[j].lbls[2], events[j].lbls[3]} :
              \E i \in MethodEvents : i > j /\ events[i].ev = "VisitLabel" /\ events[i].off = o

-----------------------------------------------------------------------------
(* C4: the labels present when pass 2 starts are each passed to VisitLabel *)
(* exactly once during readCode, in increasing order of bytecode offset,   *)
(* each before the instruction callback of the same offset.                *)
C4_Pass1LabelsVisitedOnceInOrder ==
    InOrAfterPass2 =>
        /\ \A i, j \in MethodEvents :
              (i < j /\ events[i].ev = "VisitLabel" /\ events[j].ev = "VisitLabel")
                  => events[i].off < events[j].off
        /\ \A i, j \in MethodEvents :
              (events[i].ev = "VisitLabel" /\ events[j].ev \in InsnEvents
                  /\ events[i].off = events[j].off) => i < j
        /\ ReadCodeOver =>
              \A o \in code.pass2Labels :
                  \E i \in MethodEvents : events[i].ev = "VisitLabel" /\ events[i].off = o

-----------------------------------------------------------------------------
(* C5 as claimed: every label passed to VisitLabel, other than the one of  *)
(* offset codeLength, was in the label table when pass 2 started.          *)
C5_OnlyPass1Labels ==
    InOrAfterPass2 =>
        \A i \in MethodEvents :
            (events[i].ev = "VisitLabel" /\ events[i].off # code.codeLength)
                => events[i].off \in code.pass2Labels

(* C5 as amended: every label passed to VisitLabel, other than the one of  *)
(* offset codeLength, was in the label table when pass 2 started, or was   *)
(* created during pass 2 by the decoding of a stack map frame or as the    *)
(* label that follows an expanded ASM conditional jump.                    *)
C5_Pass1OrFrameOrEndifLabels ==
    InOrAfterPass2 =>
        \A i \in MethodEvents :
            (events[i].ev = "VisitLabel" /\ events[i].off # code.codeLength)
                => events[i].off \in code.pass2Labels \cup code.pass2Created

\* A label created during pass 2 has been passed to VisitLabel.
C5_Witness ==
    /\ InOrAfterPass2
    /\ \E i \in MethodEvents :
          /\ events[i].ev = "VisitLabel"
          /\ events[i].off \in code.pass2Created \ code.pass2Labels
          /\ events[i].off # code.codeLength

-----------------------------------------------------------------------------
(* C6: with SKIP_DEBUG among the options, Accept never calls VisitSource,  *)
(* VisitLocalVariable or VisitLineNumber.                                  *)
C6_SkipDebugSkipsDebugCallbacks ==
    OptionSet(SKIP_DEBUG) =>
        \A i \in 1..Len(events) :
            events[i].ev \notin {"VisitSource", "VisitLocalVariable", "VisitLineNumber"}

\* Accept has returned under SKIP_DEBUG for a class whose first method has a
\* LineNumberTable and a LocalVariableTable, and that method was visited.
C6_Witness ==
    /\ pc = "done"
    /\ OptionSet(SKIP_DEBUG)
    /\ input.methods[1] = "branch"
    /\ \E i \in EventsOf("method", "VisitJumpInsn") : TRUE

-----------------------------------------------------------------------------
(* C7: with SKIP_FRAMES among the options, VisitFrame is never called.     *)
C7_SkipFramesSkipsVisitFrame ==
    OptionSet(SKIP_FRAMES) => EventsOf("method", "VisitFrame") = {}

-----------------------------------------------------------------------------
(* readUTFB on byte ranges made of well-formed modified-UTF-8 sequences.   *)

MaxUtfSeqs == 2

\* Well-formed sequences: one byte 0xxxxxxx, two bytes 110xxxxx 10xxxxxx,
\* three bytes 1110xxxx 10xxxxxx 10xxxxxx.
UtfSeqs ==
    { <<65>>, <<127>>,
      <<192, 128>>, <<195, 169>>, <<196, 128>>, <<223, 191>>,
      <<224, 160, 128>>, <<226, 130, 172>>, <<239, 191, 191>> }

InitUTF ==
    /\ input \in SeqsUpTo(UtfSeqs, MaxUtfSeqs)
    /\ b = Flatten(input)
    /\ pc = "utf"
    /\ err = ""
    /\ cpInfoOffsets = <<>>
    /\ header = 0
    /\ maxStringLength = Len(b)
    /\ constantUtf8Values = <<>>
    /\ utf8Calls = <<>>
    /\ numRes = NoRead
    /\ parsingOptions = 0
    /\ events = <<>>
    /\ acceptOffset = 0
    /\ fieldsCount = 0
    /\ methodsCount = 0
    /\ context = <<>>
    /\ code = <<>>

\* c.readUTFB(0, len(b), make([]rune, len(b)))
CallReadUTFB ==
    /\ pc = "utf"
    /\ numRes = NoRead
    /\ numRes' = [op |-> "readUTFB", off |-> 0, val |-> readUTFB(0, Len(b), maxStringLength)]
    /\ UNCHANGED <<b, pc, err, cpInfoOffsets, header, maxStringLength, cacheVars, acceptVars>>

NextUTF == CallReadUTFB

SpecUTF == InitUTF /\ [][NextUTF]_vars

\* The code unit a well-formed sequence stands for in modified UTF-8.
CodeUnit(seq) ==
    CASE Len(seq) = 1 -> seq[1]
      [] Len(seq) = 2 -> (seq[1] % 32) * 64 + (seq[2] % 64)
      [] Len(seq) = 3 -> (seq[1] % 16) * 4096 + (seq[2] % 64) * 64 + (seq[3] % 64)

\* C11: readUTFB over a byte range made of well-formed modified-UTF-8
\* sequences returns (without failing, having read the utfLength bytes) a
\* string with exactly one code unit per sequence: b for a single byte,
\* ((b1 & 0x1F) << 6) | (b2 & 0x3F) for a two-byte sequence and
\* ((b1 & 0x0F) << 12) | ((b2 & 0x3F) << 6) | (b3 & 0x3F) for a three-byte
\* sequence.
C11_ReadUTFBDecodesModifiedUtf8 ==
    numRes.op = "readUTFB" =>
        /\ numRes.val.ok
        /\ numRes.val.val = [k \in 1..Len(input) |-> CodeUnit(input[k])]

-----------------------------------------------------------------------------
(* readUTF and its cache, on constant pools with UTF8 entries.             *)

MaxUtfCalls == 3

\* readUTF(constantPoolEntryIndex, charBuffer) on the cache values, with
\* charBuffer of length maxStringLength: what it returns, the cache
\* afterwards, and whether it assigned the slot.
readUTFCached(values, constantPoolEntryIndex) ==
    IF constantPoolEntryIndex >= Len(values)
    THEN [ok |-> FALSE, val |-> <<>>, values |-> values, assigned |-> FALSE]
    ELSE IF values[constantPoolEntryIndex + 1] # EmptyString
    THEN [ok |-> TRUE, val |-> values[constantPoolEntryIndex + 1], values |-> values,
          assigned |-> FALSE]
    ELSE With([decoded \in {readUTF(constantPoolEntryIndex)} |->
         IF ~decoded.ok
         THEN [ok |-> FALSE, val |-> <<>>, values |-> values, assigned |-> FALSE]
         ELSE [ok |-> TRUE, val |-> decoded.val,
               values |-> [values EXCEPT ![constantPoolEntryIndex + 1] = decoded.val],
               assigned |-> TRUE]])

\* The indexes of the UTF8 entries of the constant pool.
Utf8Indexes ==
    {i \in 1..(Len(cpInfoOffsets) - 1) :
        /\ cpInfoOffsets[i + 1] > 0
        /\ InBuf(cpInfoOffsets[i + 1] - 1)
        /\ B(cpInfoOffsets[i + 1] - 1) = CONSTANT_UTF8_TAG}

Utf8PoolKinds == { "utf0", "utf2", "utf256", "class" }

InitUTFCache ==
    /\ b \in { CpInput(V10, kinds) : kinds \in SeqsUpTo(Utf8PoolKinds, MaxCpEntries) }
    /\ pc = "new"
    /\ err = ""
    /\ cpInfoOffsets = <<>>
    /\ header = 0
    /\ maxStringLength = 0
    /\ constantUtf8Values = <<>>
    /\ utf8Calls = <<>>
    /\ numRes = NoRead
    /\ AcceptIdle

\* c.readUTF(i, make([]rune, c.maxStringLength)) for a UTF8 entry i.
CallReadUTF ==
    /\ pc = "ready"
    /\ Len(utf8Calls) < MaxUtfCalls
    /\ \E i \in Utf8Indexes :
          \E r \in {readUTFCached(constantUtf8Values, i)} :
             /\ constantUtf8Values' = r.values
             /\ utf8Calls' = Append(utf8Calls, [index |-> i, assigned |-> r.assigned,
                                                ok |-> r.ok, ret |-> r.val])
    /\ UNCHANGED <<b, pc, err, cpInfoOffsets, header, maxStringLength, numRes, acceptVars>>

NextUTFCache == NewClassReader \/ CallReadUTF

SpecUTFCache == InitUTFCache /\ [][NextUTFCache]_vars

\* C12: the UTF-8 cache is write-once and decoding is idempotent: for every
\* UTF8 constant-pool index i and any sequence of readUTF(i) calls on one
\* Reader, the slot constantUtf8Values[i] is assigned at most once, and
\* every call returns the same string.
C12_Utf8CacheIsWriteOnce ==
    \A j, k \in 1..Len(utf8Calls) :
        utf8Calls[j].index = utf8Calls[k].index =>
            /\ utf8Calls[j].ok /\ utf8Calls[j].ret = utf8Calls[k].ret
            /\ (j # k => ~(utf8Calls[j].assigned /\ utf8Calls[k].assigned))

-----------------------------------------------------------------------------
(* readElementValue and readElementValues on element-value encodings,      *)
(* with a nil annotation visitor and with one that accepts everything.     *)

MaxValues == 2

\* const_value_index, class_info_index: tag, index.  'B' 'C' 'D' 'F' 'I' 'J'
\* 'S' 'Z' refer to the Integer entry, 's' and 'c' to a UTF8 entry.
ConstElementValues ==
    { <<tag>> \o U2(7) : tag \in {66, 67, 68, 70, 73, 74, 83, 90} }
        \cup { <<tag>> \o U2(NameIndex(S_I)) : tag \in {115, 99} }

\* enum_const_value: 'e', type_name_index, const_name_index.
EnumElementValue == <<101>> \o U2(NameIndex(S_I)) \o U2(NameIndex(S_f))

SimpleElementValues == ConstElementValues \cup {EnumElementValue}

\* num_values and the values of an array_value.
UnnamedValues(values) == U2(Len(values)) \o Flatten(values)

\* num_element_value_pairs and the pairs of an annotation, each named "f".
NamedValues(values) ==
    U2(Len(values)) \o Flatten([k \in 1..Len(values) |-> U2(NameIndex(S_f)) \o values[k]])

\* array_value: '[' and its values; annotation_value: '@', type_index and
\* its pairs.
ArrayValue(values) == <<91>> \o UnnamedValues(values)

AnnotationValue(values) == <<64>> \o U2(NameIndex(S_I)) \o NamedValues(values)

FlatValueLists == SeqsUpTo(SimpleElementValues, MaxValues)

\* The values of an array have one tag.
ArrayValueLists == { vs \in FlatValueLists : \A k \in 1..Len(vs) : vs[k][1] = vs[1][1] }

\* Arrays and annotations of simple values, and arrays and annotations
\* with one of those as their only value.
FlatCompoundValues ==
    { ArrayValue(vs) : vs \in ArrayValueLists } \cup { AnnotationValue(vs) : vs \in FlatValueLists }

NestedCompoundValues ==
    { ArrayValue(<<v>>) : v \in FlatCompoundValues }
        \cup { AnnotationValue(<<v>>) : v \in FlatCompoundValues }

ElementValueCalls ==
    { [fn |-> "readElementValue", named |-> FALSE, bytes |-> v] :
         v \in SimpleElementValues \cup FlatCompoundValues \cup NestedCompoundValues }
      \cup { [fn |-> "readElementValues", named |-> FALSE, bytes |-> UnnamedValues(vs)] :
                vs \in ArrayValueLists \cup { <<v>> : v \in FlatCompoundValues } }
      \cup { [fn |-> "readElementValues", named |-> TRUE, bytes |-> NamedValues(vs)] :
                vs \in FlatValueLists \cup { <<v>> : v \in FlatCompoundValues } }

NoElementValueRead == [op |-> "none", off |-> 0, val |-> <<>>]

\* The encoding follows the class-file head, whose constant pool it uses.
InitEV ==
    /\ input \in ElementValueCalls
    /\ b = ClassFileHead \o input.bytes
    /\ pc = "new"
    /\ err = ""
    /\ cpInfoOffsets = <<>>
    /\ header = 0
    /\ maxStringLength = 0
    /\ constantUtf8Values = <<>>
    /\ utf8Calls = <<>>
    /\ numRes = NoElementValueRead
    /\ parsingOptions = 0
    /\ events = <<>>
    /\ acceptOffset = 0
    /\ fieldsCount = 0
    /\ methodsCount = 0
    /\ context = <<>>
    /\ code = <<>>

\* The call input names, at the offset of the encoding: whether it returns
\* and the offset it returns.
ElementValueEnd(annotationVisitor) ==
    With([r \in {IF input.fn = "readElementValue"
                 THEN readElementValue(Start(NewContext, Len(ClassFileHead)), annotationVisitor)
                 ELSE readElementValues(Start(NewContext, Len(ClassFileHead)),
                                        annotationVisitor, input.named)} |->
        [ok |-> r.ok, off |-> IF r.ok THEN r.off ELSE -1]])

\* readElementValue(s)(annotationVisitor, offset, ...) for one visitor.
CallReadElementValue(annotationVisitor) ==
    /\ pc = "ready"
    /\ annotationVisitor \notin {call[1] : call \in {numRes.val[k] : k \in 1..Len(numRes.val)}}
    /\ numRes' = [op |-> input.fn, off |-> Len(ClassFileHead),
                  val |-> Append(numRes.val, <<annotationVisitor,
                                               ElementValueEnd(annotationVisitor)>>)]
    /\ UNCHANGED <<b, pc, err, cpInfoOffsets, header, maxStringLength, cacheVars, acceptVars>>

CallReadElementValueNil == CallReadElementValue("nil")

CallReadElementValueVisitor == CallReadElementValue("visitor")

NextEV == NewClassReader \/ CallReadElementValueNil \/ CallReadElementValueVisitor

SpecEV == InitEV /\ [][NextEV]_vars

\* C13: for every element-value encoding (tags B, C, D, F, I, J, S, Z, s, e,
\* c, @ and [, nested annotations and arrays included), readElementValues
\* and readElementValue return the same end offset when called with a nil
\* annotation visitor as when called with a non-nil one that accepts
\* everything.
C13_NilVisitorSkipsSameWidth ==
    (numRes.op \in {"readElementValue", "readElementValues"} /\ Len(numRes.val) = 2) =>
        /\ numRes.val[1][2].ok
        /\ numRes.val[2][2].ok
        /\ numRes.val[1][2].off = numRes.val[2][2].off


-----------------------------------------------------------------------------
(* Class files with one field and one method whose Code attribute is drawn  *)
(* from a menu of bytecode arrays and of Code attributes.                   *)

\* The constant pool of these class files: PoolEntries and one more name.
CodePoolEntries == PoolEntries \o << Utf8(S_RuntimeInvisibleTypeAnnotations) >>

CodeNameIndex(str) == CHOOSE i \in 1..Len(CodePoolEntries) : CodePoolEntries[i] = Utf8(str)

CodeAttribute(name, body) == U2(CodeNameIndex(name)) \o U4(Len(body)) \o body

\* 0: iconst_0  1: opcode 5  4: nop  5: return
JumpCode(opcode) == <<ICONST_0, opcode, 0, 4, NOP, RETURN>>

\* 0: nop  1: opcode 6 (four-byte offset)  6: return
WideJumpCode(opcode) == <<NOP, opcode, 0, 0, 0, 5, RETURN>>

WideJumpMenu == {GOTO_W, JSR_W, ASM_GOTO_W}

\* The ASM conditional jumps, and the other jumps of the menu.
AsmConditionalInsns == AsmJumpInsns \ {ASM_GOTO, ASM_JSR}

JumpMenu == AsmJumpInsns \cup {IFEQ, GOTO, JSR, IFNULL}

\* 0: lookupswitch (default 12, no pair)  12: return
EmptyLookupSwitchCode == <<LOOKUPSWITCH, 0, 0, 0>> \o U4(12) \o U4(0) \o <<RETURN>>

\* 0: tableswitch (default 16, low, high, no entry)  16: return
EmptyTableSwitchCode(low, high) ==
    <<TABLESWITCH, 0, 0, 0>> \o U4(16) \o U4(low) \o U4(high) \o <<RETURN>>

\* The <<low, high>> of the tableswitch instructions of the menu.
EmptyRanges == { <<1, 0>>, <<5, 4>>, <<2, 0>>, <<5, 1>> }

CodeAttrMenu == { "none", "frameAtNext", "frameAtTarget" }

\* 0: new A  3: pop  4: return
NewCode == <<opcodes_NEW, 0, 2, POP, RETURN>>

\* A type annotation on a local variable (target_type 0x40, one range:
\* start_pc 0, length 5, index 0; empty type_path), of type "I", no pair.
LocalVariableTypeAnnotation ==
    <<typereference_LOCAL_VARIABLE>> \o U2(1) \o U2(0) \o U2(5) \o U2(0) \o <<0>>
        \o U2(NameIndex(S_I)) \o U2(0)

\* A type annotation on the new at offset 0 (target_type 0x44, empty
\* type_path), of type "I", no pair.
NewTypeAnnotation ==
    <<typereference_NEW>> \o U2(0) \o <<0>> \o U2(NameIndex(S_I)) \o U2(0)

\* The type-annotation tables of the Code attribute of NewCode: which of
\* the visible and of the invisible table there is, and the target of its
\* one annotation (a local variable, or the new instruction).
TypeAnnotationMenu ==
    { "visibleLocal", "invisibleLocal", "visibleNew+invisibleLocal",
      "visibleLocal+invisibleNew", "visibleLocal+invisibleLocal", "visibleNew+invisibleNew" }

VisibleTable(kind) ==
    CASE kind \in {"visibleLocal", "visibleLocal+invisibleNew", "visibleLocal+invisibleLocal"} ->
            << LocalVariableTypeAnnotation >>
      [] kind \in {"visibleNew+invisibleLocal", "visibleNew+invisibleNew"} ->
            << NewTypeAnnotation >>
      [] OTHER -> <<>>

InvisibleTable(kind) ==
    CASE kind \in {"invisibleLocal", "visibleNew+invisibleLocal",
                   "visibleLocal+invisibleLocal"} ->
            << LocalVariableTypeAnnotation >>
      [] kind \in {"visibleLocal+invisibleNew", "visibleNew+invisibleNew"} ->
            << NewTypeAnnotation >>
      [] OTHER -> <<>>

\* The attribute of a table, no attribute for no table.
TypeAnnotationsAttr(name, table) ==
    IF table = <<>> THEN <<>>
    ELSE << CodeAttribute(name, U2(Len(table)) \o Flatten(table)) >>

\* The attributes of the Code attribute: a same_frame at offset 4, or at 5.
CodeAttrs(kind) ==
    CASE kind = "none" -> <<>>
      [] kind = "frameAtNext" -> << CodeAttribute(S_StackMapTable, U2(1) \o <<4>>) >>
      [] kind = "frameAtTarget" -> << CodeAttribute(S_StackMapTable, U2(1) \o <<5>>) >>
      [] kind \in TypeAnnotationMenu ->
            TypeAnnotationsAttr(S_RuntimeVisibleTypeAnnotations, VisibleTable(kind))
                \o TypeAnnotationsAttr(S_RuntimeInvisibleTypeAnnotations, InvisibleTable(kind))

\* A type annotation on the first type parameter of the class (target_type
\* 0x00, type_parameter_index 0, empty type_path), of type "I", no pair.
ATypeAnnotation == <<0, 0, 0>> \o U2(NameIndex(S_I)) \o U2(0)

ClassAnnotationMenu == { "visibleType", "allKinds" }

\* The attributes of the class: none, a RuntimeVisibleTypeAnnotations with
\* one annotation, or one annotation of each of three kinds.
CodeClassAttrs(kind) ==
    CASE kind = "none" -> <<>>
      [] kind = "visibleType" ->
            << CodeAttribute(S_RuntimeVisibleTypeAnnotations, U2(1) \o ATypeAnnotation) >>
      [] kind = "allKinds" ->
            << CodeAttribute(S_RuntimeInvisibleTypeAnnotations, U2(1) \o ATypeAnnotation),
               CodeAttribute(S_RuntimeVisibleTypeAnnotations, U2(1) \o ATypeAnnotation),
               CodeAttribute(S_RuntimeInvisibleAnnotations,
                             U2(1) \o U2(NameIndex(S_I)) \o U2(0)) >>

CodeInputs ==
    { [attrs |-> "none", fields |-> <<"plain">>, methods |-> <<"code">>,
       bytecode |-> NewCode, codeAttrs |-> kind] : kind \in TypeAnnotationMenu }
    \cup
    { [attrs |-> kind, fields |-> <<"plain">>, methods |-> <<"code">>,
       bytecode |-> JumpCode(IFEQ), codeAttrs |-> "none"] : kind \in ClassAnnotationMenu }
    \cup
    { [attrs |-> "none", fields |-> <<"plain">>, methods |-> <<"code">>,
       bytecode |-> JumpCode(opcode), codeAttrs |-> kind] :
          opcode \in JumpMenu, kind \in CodeAttrMenu }
    \cup { [attrs |-> "none", fields |-> <<"plain">>, methods |-> <<"code">>,
            bytecode |-> bytecode, codeAttrs |-> "none"] :
               bytecode \in { WideJumpCode(opcode) : opcode \in WideJumpMenu }
                            \cup {EmptyLookupSwitchCode}
                            \cup { EmptyTableSwitchCode(r[1], r[2]) : r \in EmptyRanges } }

CodeMethod(in) ==
    U2(9) \o U2(NameIndex(S_m)) \o U2(NameIndex(S_NoArgs)) \o U2(1)
        \o CodeAttribute(S_Code, U2(2) \o U2(2) \o U4(Len(in.bytecode)) \o in.bytecode
                                 \o U2(0)
                                 \o U2(Len(CodeAttrs(in.codeAttrs)))
                                 \o Flatten(CodeAttrs(in.codeAttrs)))

CodeClassFile(in) ==
    Magic \o U2(0) \o U2(52) \o U2(Len(CodePoolEntries) + 1) \o Flatten(CodePoolEntries)
          \o U2(33) \o U2(2) \o U2(0) \o U2(0)
          \o U2(1) \o Field("plain")
          \o U2(1) \o CodeMethod(in)
          \o U2(Len(CodeClassAttrs(in.attrs))) \o Flatten(CodeClassAttrs(in.attrs))

InitCode ==
    /\ input \in CodeInputs
    /\ b = CodeClassFile(input)
    /\ pc = "new"
    /\ err = ""
    /\ cpInfoOffsets = <<>>
    /\ header = 0
    /\ maxStringLength = 0
    /\ constantUtf8Values = <<>>
    /\ utf8Calls = <<>>
    /\ numRes = NoRead
    /\ parsingOptions = 0
    /\ events = <<>>
    /\ acceptOffset = 0
    /\ fieldsCount = 0
    /\ methodsCount = 0
    /\ context = <<>>
    /\ code = <<>>

SpecCode == InitCode /\ [][Next]_vars

\* The instruction callbacks the visitor of the method has received for the
\* instruction at bytecode offset o, in the order of the calls.
InsnEventsAt(o) ==
    SelectSeq(SubSeq(events, MethodStart + 1, Len(events)),
              LAMBDA e : e.v = "method" /\ e.ev \in InsnEvents /\ e.off = o)

\* Pass 2 has visited the instruction at bytecode offset 1 of the method and
\* has not started the next iteration.
AfterInsnAt1 ==
    /\ pc = "code"
    /\ code.currentOffset - code.bytecodeStartOffset = 4

\* Pass 2 has visited the instruction at bytecode offset 1.
PastInsnAt1 ==
    \/ pc = "code" /\ code.currentOffset - code.bytecodeStartOffset >= 4
    \/ InOrAfterPass2 /\ pc \in {"methods", "done"}

\* The method of the input is JumpCode(opcode) for an opcode of the set.
JumpInput(opcodes) ==
    /\ "bytecode" \in DOMAIN input
    /\ \E opcode \in opcodes : input.bytecode = JumpCode(opcode)

\* The logical opposite of each conditional jump.
OppositeJump ==
    (IFEQ :> IFNE) @@ (IFNE :> IFEQ) @@ (IFLT :> IFGE) @@ (IFGE :> IFLT)
    @@ (IFGT :> IFLE) @@ (IFLE :> IFGT)
    @@ (IF_ICMPEQ :> IF_ICMPNE) @@ (IF_ICMPNE :> IF_ICMPEQ)
    @@ (IF_ICMPLT :> IF_ICMPGE) @@ (IF_ICMPGE :> IF_ICMPLT)
    @@ (IF_ICMPGT :> IF_ICMPLE) @@ (IF_ICMPLE :> IF_ICMPGT)
    @@ (IF_ACMPEQ :> IF_ACMPNE) @@ (IF_ACMPNE :> IF_ACMPEQ)
    @@ (IFNULL :> IFNONNULL) @@ (IFNONNULL :> IFNULL)

\* The standard opcode of an ASM jump: the ASM opcode minus its delta.
StandardOpcode(opcode) ==
    IF opcode \in {ASM_IFNULL, ASM_IFNONNULL} THEN opcode - ASM_IFNULL_OPCODE_DELTA
    ELSE opcode - ASM_OPCODE_DELTA

\* C14: when pass 2 meets an ASM conditional jump at offset o (here 1, with
\* target 5), the method visitor receives for it exactly two jump callbacks,
\* VisitJumpInsn(inv(op), label of o+3) and then VisitJumpInsn(GOTO_W,
\* target), where op is the standard opcode and inv its logical opposite,
\* and insertFrame is set when the instruction has been visited; no panic
\* happens in such a method.
C14_AsmConditionalIsInvertedPlusGotoW ==
    JumpInput(AsmConditionalInsns) =>
        /\ pc # "panicked"
        /\ AfterInsnAt1 => code.insertFrame
        /\ PastInsnAt1 =>
              InsnEventsAt(1) =
                  << Ev("method", "VisitJumpInsn", 1,
                        OppositeJump[StandardOpcode(input.bytecode[2])], <<4>>),
                     Ev("method", "VisitJumpInsn", 1, GOTO_W, <<5>>) >>

\* An ASM_IFNULL and an ASM_IF_ICMPLT have been visited: IFNONNULL and
\* IF_ICMPGE to offset 4 and GOTO_W to offset 5 were reported.
C14_Witness ==
    /\ JumpInput({ASM_IFNULL, ASM_IF_ICMPLT})
    /\ AfterInsnAt1
    /\ code.insertFrame
    /\ Len(InsnEventsAt(1)) = 2
    /\ InsnEventsAt(1)[1].arg \in {IFNONNULL, IF_ICMPGE}
    /\ InsnEventsAt(1)[2].arg = GOTO_W


-----------------------------------------------------------------------------
(* ASM_GOTO and ASM_JSR in pass 2.                                          *)

\* The VisitFrame callbacks the visitor of the method has received at
\* bytecode offset o.
FrameEventsAt(o) ==
    { i \in MethodEvents : IsEvent(events[i], "method", "VisitFrame") /\ events[i].off = o }

\* Pass 2 has visited the instruction at bytecode offset 4, the one after
\* the jump of JumpCode.
PastInsnAt4 ==
    \/ pc = "code" /\ code.currentOffset - code.bytecodeStartOffset >= 5
    \/ InOrAfterPass2 /\ pc \in {"methods", "done"}

\* ASM_GOTO and ASM_JSR at offset 1 are reported as one GOTO_W resp. JSR_W
\* to the target.
AsmGotoIsReportedWide ==
    (JumpInput({ASM_GOTO, ASM_JSR}) /\ PastInsnAt1) =>
        InsnEventsAt(1) =
            << Ev("method", "VisitJumpInsn", 1,
                  StandardOpcode(input.bytecode[2]) + WIDE_JUMP_OPCODE_DELTA, <<5>>) >>

\* C15: when pass 2 meets ASM_GOTO or ASM_JSR it emits VisitJumpInsn(GOTO_W
\* resp. JSR_W, target) and sets insertFrame, so that under EXPAND_FRAMS the
\* next instruction (offset 4) is preceded by an F_INSERT frame or by a
\* stack-map frame.
C15_AsmGotoSetsInsertFrame ==
    /\ AsmGotoIsReportedWide
    /\ JumpInput({ASM_GOTO, ASM_JSR}) =>
          /\ AfterInsnAt1 => code.insertFrame
          /\ (OptionSet(EXPAND_FRAMS) /\ PastInsnAt4) => FrameEventsAt(4) # {}

\* C15 as the code has it: ASM_GOTO and ASM_JSR are reported as GOTO_W resp.
\* JSR_W to the target and leave insertFrame unset: no F_INSERT frame
\* precedes the next instruction, which gets a frame under EXPAND_FRAMS
\* only if the StackMapTable has one at its offset.
C15_AsmGotoLeavesInsertFrameUnset ==
    /\ AsmGotoIsReportedWide
    /\ JumpInput({ASM_GOTO, ASM_JSR}) =>
          /\ pc # "panicked"
          /\ AfterInsnAt1 => ~code.insertFrame
          /\ \A i \in FrameEventsAt(4) : events[i].arg # F_INSERT
          /\ PastInsnAt4 => (FrameEventsAt(4) # {} <=> /\ input.codeAttrs = "frameAtNext"
                                                     /\ ~OptionSet(SKIP_FRAMES))

\* An ASM_GOTO or ASM_JSR and the instruction after it have been visited
\* under EXPAND_FRAMS, there is no StackMapTable, and no frame was reported
\* at the instruction after the jump.
C15_Witness ==
    /\ JumpInput({ASM_GOTO, ASM_JSR})
    /\ input.codeAttrs = "none"
    /\ OptionSet(EXPAND_FRAMS)
    /\ PastInsnAt4
    /\ pc = "code"
    /\ InsnEventsAt(1)[1].arg \in {GOTO_W, JSR_W}
    /\ FrameEventsAt(4) = {}


-----------------------------------------------------------------------------
(* EXPAND_ASM_INSNS and the jumps of pass 2.                                *)

\* The method of the input is WideJumpCode(opcode) for an opcode of the set.
WideJumpInput(opcodes) ==
    /\ "bytecode" \in DOMAIN input
    /\ \E opcode \in opcodes : input.bytecode = WideJumpCode(opcode)

\* Pass 2 has visited the instruction at offset 1 of WideJumpCode.
PastWideInsnAt1 ==
    \/ pc = "code" /\ code.currentOffset - code.bytecodeStartOffset >= 6
    \/ InOrAfterPass2 /\ pc \in {"methods", "done"}

\* The F_INSERT frames the visitor of the method has received.
InsertedFrames == { i \in MethodEvents : /\ IsEvent(events[i], "method", "VisitFrame")
                                         /\ events[i].arg = F_INSERT }

\* The jump callbacks an ASM jump at offset 1 with target 5 is expanded to.
Expansion(opcode) ==
    IF opcode \in {ASM_GOTO, ASM_JSR}
    THEN << Ev("method", "VisitJumpInsn", 1,
               StandardOpcode(opcode) + WIDE_JUMP_OPCODE_DELTA, <<5>>) >>
    ELSE << Ev("method", "VisitJumpInsn", 1, OppositeJump[StandardOpcode(opcode)], <<4>>),
            Ev("method", "VisitJumpInsn", 1, GOTO_W, <<5>>) >>

\* C16: the wide-jump expansion is applied only when EXPAND_ASM_INSNS is
\* unset; when it is set, an ASM jump is reported as one jump callback with
\* its standard opcode, insertFrame is not set and no F_INSERT frame is
\* reported.
C16_NoExpansionUnderExpandAsmInsns ==
    JumpInput(AsmJumpInsns) =>
        IF OptionSet(EXPAND_ASM_INSNS)
        THEN /\ PastInsnAt1 =>
                   InsnEventsAt(1) = << Ev("method", "VisitJumpInsn", 1,
                                           StandardOpcode(input.bytecode[2]), <<5>>) >>
             /\ AfterInsnAt1 => ~code.insertFrame
             /\ InsertedFrames = {}
        ELSE PastInsnAt1 => InsnEventsAt(1) = Expansion(input.bytecode[2])

\* C16 as the code has it: ASM jumps are expanded whether EXPAND_ASM_INSNS
\* is set or not, and an ASM conditional sets insertFrame and gets an
\* F_INSERT frame under EXPAND_FRAMS when no stack-map frame stands at the
\* next instruction.  EXPAND_ASM_INSNS decides how GOTO_W and JSR_W are
\* reported: as they are when it is set, as GOTO and JSR when it is unset;
\* ASM_GOTO_W is reported as GOTO_W and sets insertFrame under both.
C16_ExpansionWhateverExpandAsmInsns ==
    /\ JumpInput(AsmJumpInsns) =>
          /\ pc # "panicked"
          /\ PastInsnAt1 => InsnEventsAt(1) = Expansion(input.bytecode[2])
    /\ JumpInput(AsmConditionalInsns) =>
          /\ AfterInsnAt1 => code.insertFrame
          /\ (PastInsnAt4 /\ OptionSet(EXPAND_FRAMS) /\ input.codeAttrs # "frameAtNext")
                => \E i \in InsertedFrames : events[i].off = 4
    /\ (WideJumpInput({GOTO_W, JSR_W}) /\ PastWideInsnAt1) =>
          InsnEventsAt(1) =
              << Ev("method", "VisitJumpInsn", 1,
                    IF OptionSet(EXPAND_ASM_INSNS) THEN input.bytecode[2]
                    ELSE input.bytecode[2] - WIDE_JUMP_OPCODE_DELTA, <<6>>) >>
    /\ (WideJumpInput({ASM_GOTO_W}) /\ PastWideInsnAt1) =>
          /\ InsnEventsAt(1) = << Ev("method", "VisitJumpInsn", 1, GOTO_W, <<6>>) >>
          /\ code.currentOffset - code.bytecodeStartOffset = 6 => code.insertFrame

\* An ASM conditional and the instruction after it have been visited with
\* EXPAND_ASM_INSNS and EXPAND_FRAMS set: two jumps were reported, and an
\* F_INSERT frame at offset 4.
C16_Witness ==
    /\ JumpInput(AsmConditionalInsns)
    /\ OptionSet(EXPAND_ASM_INSNS)
    /\ OptionSet(EXPAND_FRAMS)
    /\ PastInsnAt4
    /\ Len(InsnEventsAt(1)) = 2
    /\ \E i \in InsertedFrames : events[i].off = 4


-----------------------------------------------------------------------------
(* Switch instructions without case.                                        *)

\* The method of the input is a lookupswitch with no pair, or a tableswitch
\* whose high is below its low.
EmptySwitchInput ==
    /\ "bytecode" \in DOMAIN input
    /\ input.bytecode[1] \in {TABLESWITCH, LOOKUPSWITCH}

\* The bytecode offset of the default target of that switch, which is the
\* offset of the instruction after it.
SwitchDefault == Len(input.bytecode) - 1

\* The switch callback of such a method: the default label and no other.
EmptySwitchEvent ==
    Ev("method",
       IF input.bytecode[1] = TABLESWITCH THEN "VisitTableSwitchInsn"
       ELSE "VisitLookupSwitchInsn",
       0, input.bytecode[1], <<SwitchDefault>>)

\* C17: for a lookupswitch with zero pairs and for a tableswitch with
\* high < low, both passes of readCode complete without failure: pass 1
\* creates the default label only, pass 2 reports the switch with the
\* default label and no case label, and goes on with the next instruction.
C17_EmptySwitchesAreRead ==
    EmptySwitchInput =>
        /\ pc # "panicked"
        /\ (pc = "code" \/ ReadCodeOver) => code.pass2Labels = {SwitchDefault}
        /\ (pc = "code" /\ code.currentOffset > code.bytecodeStartOffset) =>
               /\ InsnEventsAt(0) = << EmptySwitchEvent >>
               /\ code.currentOffset - code.bytecodeStartOffset >= SwitchDefault
               /\ code.currentOffset - code.bytecodeStartOffset > SwitchDefault =>
                      InsnEventsAt(SwitchDefault) =
                          << Ev("method", "VisitInsn", SwitchDefault, RETURN, <<>>) >>
        /\ (InOrAfterPass2 /\ pc \in {"methods", "done"}) =>
               /\ InsnEventsAt(0) = << EmptySwitchEvent >>
               /\ InsnEventsAt(SwitchDefault) =
                      << Ev("method", "VisitInsn", SwitchDefault, RETURN, <<>>) >>


-----------------------------------------------------------------------------
(* The annotations of the class.                                            *)

\* The annotation callbacks of the class visitor, in the order of the
\* calls: <<callback, visible>> with visible 1 for true and 0 for false.
ClassAnnotationCalls ==
    LET calls == SelectSeq(events, LAMBDA e : /\ e.v = "class"
                                              /\ e.ev \in {"VisitAnnotation",
                                                           "VisitTypeAnnotation"})
    IN [k \in 1..Len(calls) |-> <<calls[k].ev, calls[k].arg>>]

\* The head of Accept is over: the annotations of the class were visited.
AfterAcceptHead == pc \in {"fields", "methods", "code", "done"}

\* C18: the RuntimeVisibleTypeAnnotations of the class are decoded from
\* their own attribute and reported by VisitTypeAnnotation with visible =
\* true, after the invisible annotations and before the invisible type
\* annotations.
C18_ClassVisibleTypeAnnotations ==
    /\ ("bytecode" \in DOMAIN input /\ input.attrs = "visibleType") =>
          /\ pc # "panicked"
          /\ AfterAcceptHead => ClassAnnotationCalls = << <<"VisitTypeAnnotation", 1>> >>
    /\ ("bytecode" \in DOMAIN input /\ input.attrs = "allKinds") =>
          /\ pc # "panicked"
          /\ AfterAcceptHead =>
                ClassAnnotationCalls = << <<"VisitAnnotation", 0>>,
                                          <<"VisitTypeAnnotation", 1>>,
                                          <<"VisitTypeAnnotation", 0>> >>


-----------------------------------------------------------------------------
(* The type annotations of the local variables.                             *)

\* The method of the input is NewCode with type-annotation tables.
TypeAnnotationInput ==
    /\ "bytecode" \in DOMAIN input
    /\ input.codeAttrs \in TypeAnnotationMenu

\* How many annotations of a table are on a local variable or on a resource
\* variable.
LocalVariableTargets(table) ==
    Cardinality({ k \in 1..Len(table) :
                     table[k][1] \in {typereference_LOCAL_VARIABLE,
                                      typereference_RESOURCE_VARIABLE} })

\* The VisitLocalVariableAnnotation callbacks of the method with the given
\* visible argument (1 for true, 0 for false).
LocalVariableAnnotationEvents(visible) ==
    { i \in MethodEvents : /\ IsEvent(events[i], "method", "VisitLocalVariableAnnotation")
                           /\ events[i].arg = visible }

\* C19: after pass 2, VisitLocalVariableAnnotation is called once with
\* visible = true for each annotation of the visible table that is on a
\* local or resource variable, and once with visible = false for each such
\* annotation of the invisible table, whatever the visible table is.
C19_LocalVariableAnnotationsPerTable ==
    TypeAnnotationInput =>
        /\ pc # "panicked"
        /\ (InOrAfterPass2 /\ pc \in {"methods", "done"}) =>
              /\ Cardinality(LocalVariableAnnotationEvents(1))
                     = LocalVariableTargets(VisibleTable(input.codeAttrs))
              /\ Cardinality(LocalVariableAnnotationEvents(0))
                     = LocalVariableTargets(InvisibleTable(input.codeAttrs))


-----------------------------------------------------------------------------
(* Label.addLineNumber and Label.accept on one label: the label is         *)
(* context.labels[0], input is the line numbers to add, numRes.off counts   *)
(* the addLineNumber calls made.                                            *)

MaxLines == 3

\* Line numbers below and above the capacities of otherLineNumbers.
LineNumbers == {1, 2, 5, 11}

NoLineAdded == [op |-> "addLineNumber", off |-> 0, val |-> 0]

InitLabel ==
    /\ input \in SeqsUpTo(LineNumbers, MaxLines)
    /\ b = <<>>
    /\ pc = "label"
    /\ err = ""
    /\ cpInfoOffsets = <<>>
    /\ header = 0
    /\ maxStringLength = 0
    /\ constantUtf8Values = <<>>
    /\ utf8Calls = <<>>
    /\ numRes = NoLineAdded
    /\ parsingOptions = 0
    /\ events = <<>>
    /\ acceptOffset = 0
    /\ fieldsCount = 0
    /\ methodsCount = 0
    /\ context = [NewContext EXCEPT !.labels = <<[NewLabel EXCEPT !.address = 1]>>]
    /\ code = <<>>

\* "labels[startPc].addLineNumber(lineNumber)" with the next line number.
CallAddLineNumber ==
    /\ pc = "label"
    /\ numRes.off < Len(input)
    /\ \E r \in {addLineNumber(LabelAt(context.labels, 0), input[numRes.off + 1])} :
          /\ context' = [context EXCEPT !.labels = <<r.val>>]
          /\ pc' = IF r.ok THEN "label" ELSE "panicked"
          /\ err' = IF r.ok THEN err ELSE "panic"
    /\ numRes' = [numRes EXCEPT !.off = @ + 1]
    /\ UNCHANGED <<b, cpInfoOffsets, header, maxStringLength, cacheVars, parsingOptions, events,
                   acceptOffset, fieldsCount, methodsCount, code, input>>

\* "currentLabel.accept(methodVisitor, (context.parsingOptions&SKIP_DEBUG) ==
\* 0)" once the line numbers are added.
CallAccept ==
    /\ pc = "label"
    /\ numRes.off = Len(input)
    /\ \E options \in {0, SKIP_DEBUG} :
          \E r \in {accept([ok |-> TRUE, off |-> 0, evs |-> <<>>], LabelAt(context.labels, 0),
                           0, ~HasOption(options, SKIP_DEBUG))} :
             /\ parsingOptions' = options
             /\ events' = r.evs
             /\ pc' = IF r.ok THEN "accepted" ELSE "panicked"
             /\ err' = IF r.ok THEN err ELSE "panic"
    /\ UNCHANGED <<b, cpInfoOffsets, header, maxStringLength, cacheVars, numRes,
                   acceptOffset, fieldsCount, methodsCount, context, code, input>>

NextLabel == CallAddLineNumber \/ CallAccept

SpecLabel == InitLabel /\ [][NextLabel]_vars

\* The callbacks of accept on a label with the given line numbers, the
\* label passed being the receiver of accept.
LabelCallbacks(lineNumbers) ==
    << OfCopy(Ev("method", "VisitLabel", 0, 0, <<0>>)) >>
        \o [k \in 1..Len(lineNumbers) |->
                OfCopy(Ev("method", "VisitLineNumber", 0, lineNumbers[k], <<0>>))]

\* C20: after addLineNumber(n1), ..., addLineNumber(nk) on a label,
\* accept(visitor, true) calls VisitLabel once and then VisitLineNumber(n1),
\* ..., VisitLineNumber(nk) in this order, and accept(visitor, false) calls
\* VisitLabel only; no call panics.
C20_AcceptReplaysLineNumbers ==
    (pc \in {"label", "accepted", "panicked"} /\ numRes.op = "addLineNumber") =>
        /\ pc # "panicked"
        /\ pc = "accepted" =>
              events = IF OptionSet(SKIP_DEBUG) THEN LabelCallbacks(<<>>)
                       ELSE LabelCallbacks(input)


-----------------------------------------------------------------------------
(* Label.addForwardReference and Label.resolve on one label: the label is  *)
(* context.labels[0], b is the code array (its first bytes, which hold      *)
(* every instruction that refers to the label), input is the references to  *)
(* add and the offset the label is resolved at, numRes.off counts the       *)
(* addForwardReference calls made and numRes.val is what resolve returned.  *)

FLAG_RESOLVED == 4

FORWARD_REFERENCE_TYPE_SHORT == 268435456

FORWARD_REFERENCE_TYPE_WIDE == 536870912

FORWARD_REFERENCE_HANDLE_MASK == 268435455

MinInt16 == -32768

MaxInt16 == 32767

\* Go's byte(x) of an int.
ToByte(x) == x % 256

\* Go's x >> n of an int.
ShrInt(x, n) == x \div (2 ^ n)

\* The fields of a Label that addForwardReference and resolve use.
UnresolvedLabel == [flags |-> 0, bytecodeOffset |-> 0, valueCount |-> 0, values |-> <<>>]

\* Label.addForwardReference: [ok, val] with val the label afterwards.
addForwardReference(l, sourceInsnBytecodeOffset, referenceType, referenceHandle) ==
    LET made == IF l.values = <<>> THEN [k \in 1..VALUES_CAPACITY_INCREMENT |-> 0]
                ELSE l.values
        grown == IF l.valueCount >= Len(made)
                 THEN made \o [k \in 1..VALUES_CAPACITY_INCREMENT |-> 0]
                 ELSE made
    IN IF l.valueCount < 0 \/ l.valueCount + 1 >= Len(grown)
       THEN Panicked([l EXCEPT !.values = grown])
       ELSE Returned([l EXCEPT
                !.values = [grown EXCEPT
                               ![l.valueCount + 1] = sourceInsnBytecodeOffset,
                               ![l.valueCount + 2] = BitOr(referenceType, referenceHandle)],
                !.valueCount = ToInt16(ToInt16(@ + 1) + 1)])

\* One iteration of the loop of resolve on the reference at values[i]:
\* [ok, code, has] with has the new hasAsmInstructions.
resolveReference(l, codeBytes, bytecodeOffset, i, hasAsmInstructions) ==
    LET sourceInsnBytecodeOffset == l.values[i + 1]
        reference == l.values[i + 2]
        relativeOffset == bytecodeOffset - sourceInsnBytecodeOffset
        handle == BitAnd(reference, FORWARD_REFERENCE_HANDLE_MASK)
        InCode(o) == o >= 0 /\ o < Len(codeBytes)
    IN
    IF BitAnd(reference, FORWARD_REFERENCE_HANDLE_MASK) = FORWARD_REFERENCE_TYPE_SHORT
    THEN LET long == relativeOffset < MinInt16 \/ relativeOffset > MaxInt16
             rewritten ==
                 IF ~long THEN codeBytes
                 ELSE [codeBytes EXCEPT ![sourceInsnBytecodeOffset + 1] =
                          IF BitAnd(@, 255) < IFNULL THEN AddByte(BitAnd(@, 255), ASM_OPCODE_DELTA)
                          ELSE AddByte(BitAnd(@, 255), ASM_IFNULL_OPCODE_DELTA)]
         IN IF (long /\ ~InCode(sourceInsnBytecodeOffset)) \/ ~InCode(handle)
               \/ ~InCode(handle + 1)
            THEN [ok |-> FALSE, code |-> codeBytes, has |-> hasAsmInstructions]
            ELSE [ok |-> TRUE,
                  code |-> [rewritten EXCEPT ![handle + 1] = ToByte(ShrInt(relativeOffset, 8)),
                                             ![handle + 2] = ToByte(relativeOffset)],
                  has |-> hasAsmInstructions \/ long]
    ELSE IF \E k \in 0..3 : ~InCode(handle + k)
    THEN [ok |-> FALSE, code |-> codeBytes, has |-> hasAsmInstructions]
    ELSE [ok |-> TRUE,
          code |-> [codeBytes EXCEPT ![handle + 1] = ToByte(ShrInt(relativeOffset, 14)),
                                ![handle + 2] = ToByte(ShrInt(relativeOffset, 16)),
                                ![handle + 3] = ToByte(ShrInt(relativeOffset, 8)),
                                ![handle + 4] = ToByte(relativeOffset)],
          has |-> hasAsmInstructions]

\* "for i := 0; i < int(l.valueCount); i += 2 { ... }"
RECURSIVE resolveReferences(_, _, _, _, _)
resolveReferences(l, codeBytes, bytecodeOffset, i, hasAsmInstructions) ==
    IF i >= l.valueCount THEN [ok |-> TRUE, code |-> codeBytes, has |-> hasAsmInstructions]
    ELSE IF i + 1 >= Len(l.values)
    THEN [ok |-> FALSE, code |-> codeBytes, has |-> hasAsmInstructions]
    ELSE With([r \in {resolveReference(l, codeBytes, bytecodeOffset, i, hasAsmInstructions)} |->
            IF ~r.ok THEN r
            ELSE resolveReferences(l, r.code, bytecodeOffset, i + 2, r.has)])

\* Label.resolve(code, bytecodeOffset): [ok, code, has, label] with has the
\* value returned.
resolve(l, codeBytes, bytecodeOffset) ==
    With([resolved \in {[l EXCEPT !.flags = BitOr(@, FLAG_RESOLVED),
                                  !.bytecodeOffset = bytecodeOffset]} |->
        With([r \in {resolveReferences(resolved, codeBytes, bytecodeOffset, 0, FALSE)} |->
            [ok |-> r.ok, code |-> r.code, has |-> r.has, label |-> resolved]])])


MaxRefs == 4

\* 0: ifeq  3: goto  6: ifnull  9: goto_w  14: nop  15: nop, the jumps
\* with no offset yet.
UnresolvedCode ==
    <<IFEQ, 0, 0, GOTO, 0, 0, IFNULL, 0, 0, GOTO_W, 0, 0, 0, 0, NOP, NOP>>

\* The forward reference of each jump of UnresolvedCode:
\* <<sourceInsnBytecodeOffset, referenceType, referenceHandle>>.
ForwardReferences ==
    { <<0, FORWARD_REFERENCE_TYPE_SHORT, 1>>, <<3, FORWARD_REFERENCE_TYPE_SHORT, 4>>,
      <<6, FORWARD_REFERENCE_TYPE_SHORT, 7>>, <<9, FORWARD_REFERENCE_TYPE_WIDE, 10>> }

\* The offsets the label is resolved at: the end of UnresolvedCode, and
\* offsets in a longer method, below and above the range of a short jump.
ResolveOffsets == {16, 20000, 40000}

\* The references are added in any order, each jump once.
ResolveInputs ==
    { [refs |-> refs, off |-> off] :
          refs \in { r \in SeqsUpTo(ForwardReferences, MaxRefs) :
                        \A i, j \in 1..Len(r) : i # j => r[i] # r[j] },
          off \in ResolveOffsets }

NoReferenceAdded == [op |-> "addForwardReference", off |-> 0, val |-> FALSE]

InitResolve ==
    /\ input \in ResolveInputs
    /\ b = UnresolvedCode
    /\ pc = "writer"
    /\ err = ""
    /\ cpInfoOffsets = <<>>
    /\ header = 0
    /\ maxStringLength = 0
    /\ constantUtf8Values = <<>>
    /\ utf8Calls = <<>>
    /\ numRes = NoReferenceAdded
    /\ parsingOptions = 0
    /\ events = <<>>
    /\ acceptOffset = 0
    /\ fieldsCount = 0
    /\ methodsCount = 0
    /\ context = [NewContext EXCEPT !.labels = <<UnresolvedLabel>>]
    /\ code = <<>>

\* "label.addForwardReference(sourceInsnBytecodeOffset, referenceType,
\* referenceHandle)" with the next reference.
CallAddForwardReference ==
    /\ pc = "writer"
    /\ numRes.off < Len(input.refs)
    /\ \E r \in {addForwardReference(LabelAt(context.labels, 0), input.refs[numRes.off + 1][1],
                                     input.refs[numRes.off + 1][2],
                                     input.refs[numRes.off + 1][3])} :
          /\ context' = [context EXCEPT !.labels = <<r.val>>]
          /\ pc' = IF r.ok THEN "writer" ELSE "panicked"
          /\ err' = IF r.ok THEN err ELSE "panic"
    /\ numRes' = [numRes EXCEPT !.off = @ + 1]
    /\ UNCHANGED <<b, cpInfoOffsets, header, maxStringLength, cacheVars, parsingOptions, events,
                   acceptOffset, fieldsCount, methodsCount, code, input>>

\* "label.resolve(code, bytecodeOffset)" once the references are added.
CallResolve ==
    /\ pc = "writer"
    /\ numRes.off = Len(input.refs)
    /\ \E r \in {resolve(LabelAt(context.labels, 0), b, input.off)} :
          /\ b' = r.code
          /\ context' = [context EXCEPT !.labels = <<r.label>>]
          /\ numRes' = [numRes EXCEPT !.op = "resolve", !.val = r.has]
          /\ pc' = IF r.ok THEN "resolved" ELSE "panicked"
          /\ err' = IF r.ok THEN err ELSE "panic"
    /\ UNCHANGED <<cpInfoOffsets, header, maxStringLength, cacheVars, parsingOptions, events,
                   acceptOffset, fieldsCount, methodsCount, code, input>>

NextResolve == CallAddForwardReference \/ CallResolve

SpecResolve == InitResolve /\ [][NextResolve]_vars

\* The references recorded by the input, as indexes of input.refs.
Recorded == { k \in 1..Len(input.refs) : TRUE }

RefSource(k) == input.refs[k][1]

RefIsShort(k) == input.refs[k][2] = FORWARD_REFERENCE_TYPE_SHORT

RefHandle(k) == input.refs[k][3]

\* off - src of the k-th reference.
RefDistance(k) == input.off - RefSource(k)

\* The n bytes of x, most significant first (x is not negative).
BigEndian(x, n) == [i \in 1..n |-> (x \div (256 ^ (n - i))) % 256]

\* The bytes of code (as offsets from 0) that hold the offset of a recorded
\* reference, and those that hold the opcode of one.
OffsetBytes ==
    UNION { RefHandle(k)..(RefHandle(k) + (IF RefIsShort(k) THEN 1 ELSE 3)) : k \in Recorded }

OpcodeBytes == { RefSource(k) : k \in Recorded }

\* C21: after any sequence of addForwardReference calls, resolve(code, off)
\* writes for each recorded reference the big-endian off - src at
\* code[handle], on two bytes for a SHORT reference and on four for a WIDE
\* one, and changes no other byte of code but the opcodes of the
\* references; no call panics.
C21_ResolveWritesBigEndianOffsets ==
    (pc \in {"writer", "resolved", "panicked"} /\ numRes.op \in {"addForwardReference", "resolve"}) =>
        /\ pc # "panicked"
        /\ pc = "resolved" =>
              /\ \A k \in Recorded :
                    SubSeq(b, RefHandle(k) + 1, RefHandle(k) + (IF RefIsShort(k) THEN 2 ELSE 4))
                        = BigEndian(RefDistance(k), IF RefIsShort(k) THEN 2 ELSE 4)
              /\ \A o \in 0..(Len(b) - 1) :
                    o \notin (OffsetBytes \cup OpcodeBytes) => b[o + 1] = UnresolvedCode[o + 1]

\* The recorded SHORT references whose off - src is outside the range of a
\* signed 16-bit offset.
LongShortRefs ==
    { k \in Recorded : RefIsShort(k) /\ (RefDistance(k) < MinInt16 \/ RefDistance(k) > MaxInt16) }

\* C22: resolve returns true if and only if some recorded SHORT reference
\* has off - src outside [-32768, 32767]; the opcode at src of exactly
\* those references is increased by ASM_OPCODE_DELTA when it is below
\* IFNULL and by ASM_IFNULL_OPCODE_DELTA otherwise, and the opcode of every
\* other reference is unchanged.
C22_ResolveFlagsLongShortJumps ==
    (pc = "resolved" /\ numRes.op = "resolve") =>
        /\ numRes.val <=> LongShortRefs # {}
        /\ \A k \in Recorded :
              b[RefSource(k) + 1] =
                  IF k \notin LongShortRefs THEN UnresolvedCode[RefSource(k) + 1]
                  ELSE IF UnresolvedCode[RefSource(k) + 1] < IFNULL
                  THEN UnresolvedCode[RefSource(k) + 1] + ASM_OPCODE_DELTA
                  ELSE UnresolvedCode[RefSource(k) + 1] + ASM_IFNULL_OPCODE_DELTA


-----------------------------------------------------------------------------
(* Accept on class files cut short.  NewClassReader reads the constant     *)
(* pool only, so it succeeds on every buffer that still holds the whole    *)
(* constant pool.                                                          *)

MaxCut == 3

\* Where the class file cf may end: with its constant pool, or up to MaxCut
\* bytes before its end.
CutPoints(cf) == {Len(ClassFileHead) - 8} \cup {Len(cf) - k : k \in 0..MaxCut}

InitTruncated ==
    /\ input \in Inputs
    /\ \E n \in CutPoints(ClassFile(input)) : b = SubSeq(ClassFile(input), 1, n)
    /\ pc = "new"
    /\ err = ""
    /\ cpInfoOffsets = <<>>
    /\ header = 0
    /\ maxStringLength = 0
    /\ constantUtf8Values = <<>>
    /\ utf8Calls = <<>>
    /\ numRes = NoRead
    /\ parsingOptions = 0
    /\ events = <<>>
    /\ acceptOffset = 0
    /\ fieldsCount = 0
    /\ methodsCount = 0
    /\ context = <<>>
    /\ code = <<>>

SpecTruncated == InitTruncated /\ [][Next]_vars

\* The call of Accept has failed with the panic the reader raises itself.
AssertionErrorRaised ==
    /\ pc = "panicked"
    /\ events # <<>>
    /\ IsEvent(events[Len(events)], "reader", "AssertionError")

\* The buffer ends where the constant pool ends.
OnlyConstantPool == Len(b) = Len(ClassFileHead) - 8

(* C23: on every buffer NewClassReader has accepted, Accept returns after  *)
(* calling VisitEnd or fails with AssertionError; it never fails in        *)
(* another way, such as a read outside the buffer.                         *)
C23_AcceptEndsOrAssertionError ==
    /\ pc = "panicked" => AssertionErrorRaised
    /\ pc = "done" => /\ events # <<>>
                      /\ IsEvent(events[Len(events)], "class", "VisitEnd")


-----------------------------------------------------------------------------
(* Methods with a compressed StackMapTable.                                *)

MaxFrames == 2

FrameMenu == {"same", "same1", "chop1", "append1", "append2", "full0", "full2"}

\* The stack_map_frame of a kind, offset_delta being its delta.
FrameBytes(kind, delta) ==
    CASE kind = "same"    -> <<delta>>
      [] kind = "same1"   -> <<frame_SAME_LOCALS_1_STACK_ITEM_FRAME + delta, 1>>
      [] kind = "chop1"   -> <<frame_SAME_FRAME_EXTENDED - 1>> \o U2(delta)
      [] kind = "append1" -> <<frame_SAME_FRAME_EXTENDED + 1>> \o U2(delta) \o <<1>>
      [] kind = "append2" -> <<frame_SAME_FRAME_EXTENDED + 2>> \o U2(delta) \o <<1, 1>>
      [] kind = "full0"   -> <<frame_FULL_FRAME>> \o U2(delta) \o U2(0) \o U2(0)
      [] kind = "full2"   -> <<frame_FULL_FRAME>> \o U2(delta) \o U2(2) \o <<1, 1>> \o U2(0)

\* The number of locals a frame of that kind describes when the frame
\* before it describes n locals (class-file format, StackMapTable).
LocalsAfter(kind, n) ==
    CASE kind \in {"same", "same1"} -> n
      [] kind = "chop1"   -> n - 1
      [] kind = "append1" -> n + 1
      [] kind = "append2" -> n + 2
      [] kind = "full0"   -> 0
      [] kind = "full2"   -> 2

\* The locals of the implicit frame of a method of descriptor ()V.
ImplicitLocals(accessFlags) == IF BitAnd(accessFlags, ACC_STATIC) # 0 THEN 0 ELSE 1

\* The number of locals described by the k-th frame of the table.
RECURSIVE RunningLocals(_, _, _)
RunningLocals(accessFlags, frames, k) ==
    IF k = 0 THEN ImplicitLocals(accessFlags)
    ELSE LocalsAfter(frames[k], RunningLocals(accessFlags, frames, k - 1))

FramedMaxLocals == 4

\* The tables of the class files: frames that describe between 0 and
\* max_locals locals.
FrameTables(accessFlags) ==
    { frames \in UNION { [1..n -> FrameMenu] : n \in 1..MaxFrames } :
          \A k \in 1..Len(frames) :
              RunningLocals(accessFlags, frames, k) \in 0..FramedMaxLocals }

\* The frames are at the bytecode offsets 1, 2, ...
StackMapTable(frames) ==
    CodeAttribute(S_StackMapTable,
                  U2(Len(frames))
                      \o Flatten([k \in 1..Len(frames) |->
                                     FrameBytes(frames[k], IF k = 1 THEN 1 ELSE 0)]))

FramedInputs ==
    { [attrs |-> "none", fields |-> <<"plain">>, methods |-> <<"framed">>,
       access |-> accessFlags, frames |-> frames] :
          accessFlags \in {1, 1 + ACC_STATIC}, frames \in
              FrameTables(1) \cup FrameTables(1 + ACC_STATIC) } \
    { in \in [attrs : {"none"}, fields : {<<"plain">>}, methods : {<<"framed">>},
              access : {1, 1 + ACC_STATIC},
              frames : FrameTables(1) \cup FrameTables(1 + ACC_STATIC)] :
          in.frames \notin FrameTables(in.access) }

\* 0: nop  1: nop  2: nop  3: nop  4: return; max_stack 2, max_locals 4
FramedMethod(in) ==
    U2(in.access) \o U2(NameIndex(S_m)) \o U2(NameIndex(S_NoArgs)) \o U2(1)
        \o CodeAttribute(S_Code, U2(2) \o U2(FramedMaxLocals) \o U4(5)
                                 \o <<NOP, NOP, NOP, NOP, RETURN>>
                                 \o U2(0)
                                 \o U2(1) \o StackMapTable(in.frames))

FramedClassFile(in) ==
    Magic \o U2(0) \o U2(52) \o U2(Len(CodePoolEntries) + 1) \o Flatten(CodePoolEntries)
          \o U2(33) \o U2(2) \o U2(0) \o U2(0)
          \o U2(1) \o Field("plain")
          \o U2(1) \o FramedMethod(in)
          \o U2(0)

InitStackMap ==
    /\ input \in FramedInputs
    /\ b = FramedClassFile(input)
    /\ pc = "new"
    /\ err = ""
    /\ cpInfoOffsets = <<>>
    /\ header = 0
    /\ maxStringLength = 0
    /\ constantUtf8Values = <<>>
    /\ utf8Calls = <<>>
    /\ numRes = NoRead
    /\ parsingOptions = 0
    /\ events = <<>>
    /\ acceptOffset = 0
    /\ fieldsCount = 0
    /\ methodsCount = 0
    /\ context = <<>>
    /\ code = <<>>

SpecStackMap == InitStackMap /\ [][Next]_vars

\* The VisitFrame(F_NEW, ...) callbacks made for the frames of the table, in
\* the order of the calls.
NewFrameEvents ==
    { i \in MethodEvents : /\ IsEvent(events[i], "method", "VisitFrame")
                           /\ events[i].arg = F_NEW
                           /\ events[i].off >= 0 }

\* How many of them precede the callback i, that one included.
FrameRank(i) == Cardinality({ j \in NewFrameEvents : j <= i })

(* C24: with EXPAND_FRAMS set and a compressed StackMapTable, the number   *)
(* of locals passed with each F_NEW frame is the running count: the count  *)
(* of the implicit frame, unchanged by SAME and SAME1 frames, k less after *)
(* a CHOP-k frame, k more after an APPEND-k frame, n after a FULL frame    *)
(* of n locals; it is never negative.                                      *)
C24_ExpandedFramesCarryRunningLocalCount ==
    OptionSet(EXPAND_FRAMS) =>
        \A i \in NewFrameEvents :
            /\ events[i].nLocal >= 0
            /\ FrameRank(i) <= Len(input.frames)
            /\ events[i].nLocal = RunningLocals(input.access, input.frames, FrameRank(i))


-----------------------------------------------------------------------------
(* Label.markSubroutine and Label.addSubroutineRetSuccessors on the         *)
(* control-flow graph of a method.  The basic blocks are the labels         *)
(* 1..MaxBlocks of context.labels; a reference to a Label is its index,     *)
(* Nil for nil and EMPTY_LIST for the sentinel.  The edge list of a block   *)
(* is the sequence of the successors of its edges, first edge first.  One   *)
(* iteration of a loop is one step; the local variables of the running      *)
(* call are in code.  A behaviour is markSubroutine on the blocks as they   *)
(* are built ("blocks"), then one more call of either function on the       *)
(* blocks the first call has left ("marked").                               *)

FLAG_SUBROUTINE_CALLER == 16

FLAG_SUBROUTINE_BODY == 64

FLAG_SUBROUTINE_END == 128

MaxBlocks == 2

MaxEdges == 3

MaxSubroutines == 2

Blocks == 1..MaxBlocks

Nil == 0

\* var EMPTY_LIST = &Label{}: a Label that is no block of the graph.
EMPTY_LIST == MaxBlocks + 1

BasicBlock(flags, edges) ==
    [flags |-> flags, values |-> <<>>, outgoingEdges |-> edges, nextListElement |-> Nil]

\* edge.nextEdge, an edge being its position in the list of its block.
NextEdge(edges, k) == IF k < Len(edges) THEN k + 1 ELSE Nil

isInSubroutine(l, subroutineID) ==
    IF BitAnd(l.flags, FLAG_SUBROUTINE_BODY) # 0
    THEN BitAnd(l.values[subroutineID \div 32 + 1], 2 ^ (subroutineID % 32)) # 0
    ELSE FALSE

isInSameSubroutine(l, basicBlock) ==
    IF BitAnd(l.flags, FLAG_SUBROUTINE_BODY) = 0
       \/ BitAnd(basicBlock.flags, FLAG_SUBROUTINE_BODY) = 0
    THEN FALSE
    ELSE \E i \in 1..Len(l.values) : BitAnd(l.values[i], basicBlock.values[i]) # 0

addToSubroutine(l, subroutineID, numSubroutine) ==
    LET body == IF BitAnd(l.flags, FLAG_SUBROUTINE_BODY) = 0
                THEN [l EXCEPT !.flags = BitOr(@, FLAG_SUBROUTINE_BODY),
                               !.values = Rep(0, numSubroutine \div 32 + 1)]
                ELSE l
    IN [body EXCEPT !.values[subroutineID \div 32 + 1] = BitOr(@, 2 ^ (subroutineID % 32))]

\* The body of the loop of pushSuccessors without the test of
\* nextListElement.
pushSuccessorAgain(labels, successor, listOfLabelsToProcess) ==
    [labels |-> [labels EXCEPT ![successor].nextListElement = listOfLabelsToProcess],
     list |-> successor]

\* "if outgoingEdge.successor.nextListElement == nil { ... }"
pushSuccessor(labels, successor, listOfLabelsToProcess) ==
    IF labels[successor].nextListElement = Nil
    THEN [labels |-> [labels EXCEPT ![successor].nextListElement = listOfLabelsToProcess],
          list |-> successor]
    ELSE [labels |-> labels, list |-> listOfLabelsToProcess]

\* The loop of pushSuccessors from the edge outgoingEdge of the block l on.
RECURSIVE pushSuccessorsFrom(_, _, _, _)
pushSuccessorsFrom(labels, l, outgoingEdge, listOfLabelsToProcess) ==
    IF outgoingEdge = Nil THEN [labels |-> labels, list |-> listOfLabelsToProcess]
    ELSE
    LET edges == labels[l].outgoingEdges
        isJsrTarget == /\ BitAnd(labels[l].flags, FLAG_SUBROUTINE_CALLER) # 0
                       /\ outgoingEdge = NextEdge(edges, outgoingEdge)
        pushed == IF ~isJsrTarget
                  THEN pushSuccessor(labels, edges[outgoingEdge], listOfLabelsToProcess)
                  ELSE [labels |-> labels, list |-> listOfLabelsToProcess]
    IN pushSuccessorsFrom(pushed.labels, l, NextEdge(edges, outgoingEdge), pushed.list)

pushSuccessors(labels, l, listOfLabelsToProcess) ==
    pushSuccessorsFrom(labels, l, IF labels[l].outgoingEdges = <<>> THEN Nil ELSE 1,
                       listOfLabelsToProcess)

\* The graphs: the edges are added to the blocks one at a time.
RECURSIVE EdgesOf(_, _)
EdgesOf(edgeSeq, block) ==
    IF edgeSeq = <<>> THEN <<>>
    ELSE IF Head(edgeSeq)[1] = block THEN <<Head(edgeSeq)[2]>> \o EdgesOf(Tail(edgeSeq), block)
    ELSE EdgesOf(Tail(edgeSeq), block)

Graphs ==
    { [block \in Blocks |-> EdgesOf(edgeSeq, block)] :
          edgeSeq \in SeqsUpTo(Blocks \X Blocks, MaxEdges) }

\* A graph, the blocks that end with a JSR (their second edge leads to the
\* subroutine) and the blocks that end with a RET.
SubroutineInputs ==
    { [edges |-> g, callers |-> callers, ends |-> ends] :
          g \in Graphs,
          callers \in { {} } \cup { {block} : block \in Blocks },
          ends \in { {} } \cup { {block} : block \in Blocks } } \
    { in \in [edges : Graphs, callers : SUBSET Blocks, ends : SUBSET Blocks] :
          \E block \in in.callers : Len(in.edges[block]) # 2 }

NoCall == [op |-> "none", off |-> 0, val |-> 0]

NoLocals ==
    [l |-> Nil, subroutineID |-> 0, subroutineCaller |-> Nil,
     listOfBlocksToProcess |-> Nil, listOfProcessedBlocks |-> Nil, returnTo |-> "blocks"]

\* The subroutine a call of markSubroutine made now can be about: the first
\* subroutine on blocks that are in none, any afterwards.
SubroutineIDs == IF pc = "blocks" THEN {0} ELSE 0..(MaxSubroutines - 1)

\* Where a call made now returns to.
ReturnPoint == IF pc = "blocks" THEN "marked" ELSE "done"

InitSubroutine ==
    /\ input \in SubroutineInputs
    /\ context = [NewContext EXCEPT !.labels =
                     [block \in Blocks |->
                         BasicBlock((IF block \in input.callers
                                     THEN FLAG_SUBROUTINE_CALLER ELSE 0)
                                    + (IF block \in input.ends
                                       THEN FLAG_SUBROUTINE_END ELSE 0),
                                    input.edges[block])]]
    /\ code = NoLocals
    /\ numRes = NoCall
    /\ pc = "blocks"
    /\ err = ""
    /\ b = <<>>
    /\ cpInfoOffsets = <<>>
    /\ header = 0
    /\ maxStringLength = 0
    /\ constantUtf8Values = <<>>
    /\ utf8Calls = <<>>
    /\ parsingOptions = 0
    /\ events = <<>>
    /\ acceptOffset = 0
    /\ fieldsCount = 0
    /\ methodsCount = 0

subroutineFrame ==
    <<b, cpInfoOffsets, header, maxStringLength, cacheVars, parsingOptions, events,
      acceptOffset, fieldsCount, methodsCount, input, err>>

\* "l.markSubroutine(subroutineID, numSubroutine)" up to its loop; numRes.val
\* keeps the blocks as they are when the call is made.
CallMarkSubroutine ==
    /\ pc \in {"blocks", "marked"}
    /\ \E l \in Blocks, subroutineID \in SubroutineIDs :
          /\ context' = [context EXCEPT !.labels[l].nextListElement = EMPTY_LIST]
          /\ code' = [NoLocals EXCEPT !.l = l, !.subroutineID = subroutineID,
                                      !.listOfBlocksToProcess = l,
                                      !.returnTo = ReturnPoint]
    /\ numRes' = [op |-> "markSubroutine", off |-> numRes.off + 1, val |-> context.labels]
    /\ pc' = "markSubroutine"
    /\ UNCHANGED subroutineFrame

\* One test of "for listOfBlocksToProcess != EMPTY_LIST" and its body.
MarkSubroutineStep ==
    /\ pc = "markSubroutine"
    /\ IF code.listOfBlocksToProcess = EMPTY_LIST
       THEN /\ pc' = code.returnTo
            /\ UNCHANGED <<context, code>>
       ELSE IF code.listOfBlocksToProcess = Nil
       THEN /\ pc' = "panicked"
            /\ UNCHANGED <<context, code>>
       ELSE \E basicBlock \in {code.listOfBlocksToProcess} :
            \E labels \in {[context.labels EXCEPT ![basicBlock].nextListElement = Nil]} :
            \E r \in {IF ~isInSubroutine(labels[basicBlock], code.subroutineID)
                      THEN pushSuccessors(
                               [labels EXCEPT ![basicBlock] =
                                   addToSubroutine(@, code.subroutineID, MaxSubroutines)],
                               basicBlock, context.labels[basicBlock].nextListElement)
                      ELSE [labels |-> labels,
                            list |-> context.labels[basicBlock].nextListElement]} :
               /\ context' = [context EXCEPT !.labels = r.labels]
               /\ code' = [code EXCEPT !.listOfBlocksToProcess = r.list]
               /\ pc' = "markSubroutine"
    /\ UNCHANGED <<numRes, subroutineFrame>>

\* "l.addSubroutineRetSuccessors(subroutineCaller, numSubroutine)" up to its
\* first loop; subroutineCaller is a block that ends with a JSR.
CallAddSubroutineRetSuccessors ==
    /\ pc = "marked"
    /\ \E l \in Blocks, subroutineCaller \in input.callers :
          /\ context' = [context EXCEPT !.labels[l].nextListElement = EMPTY_LIST]
          /\ code' = [NoLocals EXCEPT !.l = l, !.subroutineCaller = subroutineCaller,
                                      !.listOfBlocksToProcess = l,
                                      !.listOfProcessedBlocks = EMPTY_LIST,
                                      !.returnTo = ReturnPoint]
    /\ numRes' = [op |-> "addSubroutineRetSuccessors", off |-> numRes.off + 1, val |-> 0]
    /\ pc' = "addSubroutineRetSuccessors"
    /\ UNCHANGED subroutineFrame

\* One test of the first loop of addSubroutineRetSuccessors and its body.
AddSubroutineRetSuccessorsStep ==
    /\ pc = "addSubroutineRetSuccessors"
    /\ IF code.listOfBlocksToProcess = EMPTY_LIST
       THEN /\ pc' = "reset"
            /\ UNCHANGED <<context, code>>
       ELSE IF code.listOfBlocksToProcess = Nil
       THEN /\ pc' = "panicked"
            /\ UNCHANGED <<context, code>>
       ELSE \E basicBlock \in {code.listOfBlocksToProcess} :
            \E caller \in {context.labels[code.subroutineCaller]} :
            \E listed \in {[context.labels EXCEPT ![basicBlock].nextListElement =
                                                     code.listOfProcessedBlocks]} :
            \E labels \in {IF BitAnd(listed[basicBlock].flags, FLAG_SUBROUTINE_END) # 0
                              /\ ~isInSameSubroutine(listed[basicBlock], caller)
                           THEN [listed EXCEPT ![basicBlock].outgoingEdges =
                                                  <<caller.outgoingEdges[1]>> \o @]
                           ELSE listed} :
            \E r \in {pushSuccessors(labels, basicBlock,
                                     context.labels[basicBlock].nextListElement)} :
               /\ context' = [context EXCEPT !.labels = r.labels]
               /\ code' = [code EXCEPT !.listOfBlocksToProcess = r.list,
                                       !.listOfProcessedBlocks = basicBlock]
               /\ pc' = "addSubroutineRetSuccessors"
    /\ UNCHANGED <<numRes, subroutineFrame>>

\* One test of "for listOfProcessedBlocks != EMPTY_LIST" and its body.
ResetProcessedBlocksStep ==
    /\ pc = "reset"
    /\ IF code.listOfProcessedBlocks = EMPTY_LIST
       THEN /\ pc' = code.returnTo
            /\ UNCHANGED <<context, code>>
       ELSE IF code.listOfProcessedBlocks = Nil
       THEN /\ pc' = "panicked"
            /\ UNCHANGED <<context, code>>
       ELSE /\ context' = [context EXCEPT
                              !.labels[code.listOfProcessedBlocks].nextListElement = Nil]
            /\ code' = [code EXCEPT !.listOfProcessedBlocks =
                           context.labels[code.listOfProcessedBlocks].nextListElement]
            /\ pc' = "reset"
    /\ UNCHANGED <<numRes, subroutineFrame>>

NextSubroutine ==
    \/ CallMarkSubroutine
    \/ MarkSubroutineStep
    \/ CallAddSubroutineRetSuccessors
    \/ AddSubroutineRetSuccessorsStep
    \/ ResetProcessedBlocksStep

SpecSubroutine == InitSubroutine /\ [][NextSubroutine]_vars

\* Every call that was made goes on until it returns.
SpecSubroutineFair ==
    /\ InitSubroutine
    /\ [][NextSubroutine]_vars
    /\ WF_vars(MarkSubroutineStep)
    /\ WF_vars(AddSubroutineRetSuccessorsStep)
    /\ WF_vars(ResetProcessedBlocksStep)


\* A call is running.
InSubroutineCall == pc \in {"markSubroutine", "addSubroutineRetSuccessors", "reset"}

\* No block is in a work list.
NoListResidue == \A block \in Blocks : context.labels[block].nextListElement = Nil

SubroutineCallReturned == pc \in {"marked", "done"}

\* The graph has a cycle through two blocks, or a block that is its own
\* successor.
HasCycle ==
    \E x, y \in Blocks :
        /\ x # y
        /\ \E k \in 1..Len(input.edges[x]) : input.edges[x][k] = y
        /\ \E k \in 1..Len(input.edges[y]) : input.edges[y][k] = x

HasSelfLoop ==
    \E x \in Blocks : \E k \in 1..Len(input.edges[x]) : input.edges[x][k] = x

\* The number of labels in the list that starts at list, as far as count
\* labels are followed.
RECURSIVE ListLength(_, _)
ListLength(list, count) ==
    IF list \notin Blocks \/ count = 0 THEN 0
    ELSE 1 + ListLength(context.labels[list].nextListElement, count - 1)

\* What a running traversal has left to do: the blocks markSubroutine can
\* still add to the subroutine and the blocks it has to take from its list;
\* the blocks addSubroutineRetSuccessors has not processed, then the blocks
\* it has to reset.
TraversalRank ==
    CASE pc = "markSubroutine" ->
            (MaxBlocks + 2) * Cardinality({ block \in Blocks :
                                  ~isInSubroutine(context.labels[block], code.subroutineID) })
                + ListLength(code.listOfBlocksToProcess, MaxBlocks + 1)
      [] pc = "addSubroutineRetSuccessors" ->
            (MaxBlocks + 2) + MaxBlocks - ListLength(code.listOfProcessedBlocks, MaxBlocks + 1)
      [] pc = "reset" -> ListLength(code.listOfProcessedBlocks, MaxBlocks + 1)
      [] OTHER -> 0

\* Under weak fairness of the loops, a call that runs returns with no block
\* left in a list.
SubroutineCallsReturn == InSubroutineCall ~> (SubroutineCallReturned /\ NoListResidue)

(* C25: on every finite control-flow graph, cycles and self-loops          *)
(* included, a call of markSubroutine or of addSubroutineRetSuccessors     *)
(* terminates (every iteration of its loops lowers what the traversal has  *)
(* left to do, which is never negative, and no iteration fails), and when  *)
(* it returns no block has a nextListElement left.                         *)
C25_SubroutineTraversalsTerminateClean ==
    /\ [][InSubroutineCall /\ InSubroutineCall' => TraversalRank' < TraversalRank]_vars
    /\ [](TraversalRank >= 0)
    /\ [](pc # "panicked")
    /\ [](SubroutineCallReturned => NoListResidue)

\* Both traversals have returned on a graph with a cycle, the second one
\* after having processed both blocks of the cycle.
C25_Witness ==
    /\ SubroutineCallReturned
    /\ pc = "done"
    /\ numRes.op = "addSubroutineRetSuccessors"
    /\ HasCycle
    /\ NoListResidue

\* The successors markSubroutine is said to follow from a block: all of
\* them, but only the first one (the return point) of a block that ends
\* with a JSR.
FollowedSuccessors(labels, block) ==
    IF BitAnd(labels[block].flags, FLAG_SUBROUTINE_CALLER) # 0
    THEN { labels[block].outgoingEdges[k] : k \in 1..Len(labels[block].outgoingEdges) \cap {1} }
    ELSE { labels[block].outgoingEdges[k] : k \in 1..Len(labels[block].outgoingEdges) }

\* The blocks outside the subroutine that are reached from the blocks of
\* found through blocks outside the subroutine.
RECURSIVE ReachedOutside(_, _, _)
ReachedOutside(labels, subroutineID, found) ==
    LET more == { y \in UNION { FollowedSuccessors(labels, x) : x \in found } :
                      ~isInSubroutine(labels[y], subroutineID) }
    IN IF more \subseteq found THEN found
       ELSE ReachedOutside(labels, subroutineID, found \cup more)

\* The last call was markSubroutine and it has returned.
MarkSubroutineReturned == SubroutineCallReturned /\ numRes.op = "markSubroutine"

(* C26: after markSubroutine(id, n) started on block s, a block belongs to *)
(* subroutine id iff it already belonged to it or is reachable from s      *)
(* through blocks not yet in the subroutine, the JSR-target edge of a      *)
(* SUBROUTINE_CALLER block never being followed; the membership of the     *)
(* other subroutines is unchanged.                                         *)
C26_MarkSubroutineMarksReachableBlocks ==
    MarkSubroutineReturned =>
        \A block \in Blocks, id \in 0..(MaxSubroutines - 1) :
            isInSubroutine(context.labels[block], id)
                <=> \/ isInSubroutine(numRes.val[block], id)
                    \/ /\ id = code.subroutineID
                       /\ block \in ReachedOutside(
                              numRes.val, id,
                              { s \in {code.l} : ~isInSubroutine(numRes.val[s], id) })


-----------------------------------------------------------------------------
(* createLabel and createDebugLabel called in any order on one table of    *)
(* labels.  numRes.val is the set of the offsets createLabel was called    *)
(* with and numRes.off the number of calls made.                           *)

MaxOffsets == 3

MaxLabelCalls == 4

NoLabelCreated == [op |-> "none", off |-> 0, val |-> {}]

InitCreateLabel ==
    /\ context = [NewContext EXCEPT !.labels = MakeLabels(MaxOffsets)]
    /\ numRes = NoLabelCreated
    /\ pc = "labels"
    /\ err = ""
    /\ input = <<>>
    /\ b = <<>>
    /\ cpInfoOffsets = <<>>
    /\ header = 0
    /\ maxStringLength = 0
    /\ constantUtf8Values = <<>>
    /\ utf8Calls = <<>>
    /\ parsingOptions = 0
    /\ events = <<>>
    /\ acceptOffset = 0
    /\ fieldsCount = 0
    /\ methodsCount = 0
    /\ code = <<>>

createLabelFrame ==
    <<b, cpInfoOffsets, header, maxStringLength, cacheVars, parsingOptions, events,
      acceptOffset, fieldsCount, methodsCount, input, err, code, pc>>

\* "c.createLabel(bytecodeOffset, labels)"
CallCreateLabel ==
    /\ pc = "labels"
    /\ numRes.off < MaxLabelCalls
    /\ \E bytecodeOffset \in 0..(MaxOffsets - 1) :
          /\ context' = ContextOf(createLabel(Start(context, 0), bytecodeOffset))
          /\ numRes' = [op |-> "createLabel", off |-> numRes.off + 1,
                        val |-> numRes.val \cup {bytecodeOffset}]
    /\ UNCHANGED createLabelFrame

\* "c.createDebugLabel(bytecodeOffset, labels)"
CallCreateDebugLabel ==
    /\ pc = "labels"
    /\ numRes.off < MaxLabelCalls
    /\ \E bytecodeOffset \in 0..(MaxOffsets - 1) :
          /\ context' = ContextOf(createDebugLabel(Start(context, 0), bytecodeOffset))
          /\ numRes' = [op |-> "createDebugLabel", off |-> numRes.off + 1,
                        val |-> numRes.val]
    /\ UNCHANGED createLabelFrame

NextCreateLabel == CallCreateLabel \/ CallCreateDebugLabel

SpecCreateLabel == InitCreateLabel /\ [][NextCreateLabel]_vars

DebugOnly(l) == BitAnd(l.flags, FLAG_DEBUG_ONLY) # 0

(* C27: for every offset and every interleaving of createLabel and         *)
(* createDebugLabel on one table, the table holds at most one Label for    *)
(* the offset (once there, the entry stays the same instance, which no     *)
(* other entry is) and that Label has DEBUG_ONLY set iff createLabel was   *)
(* never called for the offset.                                            *)
C27_OneLabelPerOffsetDebugOnlyUnlessCreated ==
    /\ [](\A o \in LabelOffsets(context.labels) :
             DebugOnly(LabelAt(context.labels, o)) <=> o \notin numRes.val)
    /\ [](\A o \in numRes.val : LabelAt(context.labels, o).present)
    /\ [](\A o1, o2 \in LabelOffsets(context.labels) :
             LabelAt(context.labels, o1).address = LabelAt(context.labels, o2).address
                 => o1 = o2)
    /\ [][\A o \in LabelOffsets(context.labels) :
             /\ LabelAt(context.labels', o).present
             /\ LabelAt(context.labels', o).address = LabelAt(context.labels, o).address]_vars

\* createDebugLabel, createLabel and createDebugLabel again were called for
\* one offset, and createDebugLabel alone for another.
C27_Witness ==
    /\ numRes.off = MaxLabelCalls
    /\ numRes.op = "createDebugLabel"
    /\ numRes.val = {0}
    /\ LabelOffsets(context.labels) = {0, 1}
    /\ ~DebugOnly(LabelAt(context.labels, 0))
    /\ DebugOnly(LabelAt(context.labels, 1))


-----------------------------------------------------------------------------
\* The callbacks other than VisitLabel that are passed labels.
LabelUsingEvents ==
    { "VisitJumpInsn", "VisitTableSwitchInsn", "VisitLookupSwitchInsn", "VisitTryCatchBlock",
      "VisitLocalVariable", "VisitLineNumber" }

\* The callback j is passed the label of the bytecode offset o.
UsesLabel(j, o) ==
    /\ events[j].ev \in LabelUsingEvents
    /\ \E k \in 1..Len(events[j].lbls) : events[j].lbls[k] = o

(* C28: for every bytecode offset o below codeLength, the Label passed to  *)
(* VisitLabel in pass 2 is the object labels[o] that is passed for o to    *)
(* VisitJumpInsn, the switch callbacks, VisitTryCatchBlock and             *)
(* VisitLocalVariable, and to the VisitLineNumber callbacks of the label.  *)
C28_LabelIdentityAcrossEvents ==
    InOrAfterPass2 =>
        \A i, j \in MethodEvents :
            (/\ events[i].ev = "VisitLabel"
             /\ events[i].off >= 0
             /\ events[i].off < code.codeLength
             /\ UsesLabel(j, events[i].off))
                => /\ ~events[i].copy
                   /\ events[j].copy = events[i].copy


-----------------------------------------------------------------------------
(* readTypeAnnotationTarget on consecutive type annotation targets.  b is  *)
(* the targets (target_type, target_info, type_path) one after the other;  *)
(* numRes.val is the offset of the target the last call has read and       *)
(* numRes.off the offset it has returned.                                  *)

MaxTargets == 2

\* The type_path structures: path_length, then a type_path_kind and a
\* type_argument_index per step.
TypePathMenu == { <<0>>, <<1, 0, 0>>, <<2, 0, 0, 3, 1>> }

\* A type_parameter_target (target_type 0x00 or 0x01 and the index of the
\* type parameter) and its type_path.
TargetMenu ==
    { <<targetType, 0>> \o path :
          targetType \in {typereference_CLASS_TYPE_PARAMETER,
                          typereference_METHOD_TYPE_PARAMETER},
          path \in TypePathMenu }

\* What follows the targets in the buffer: the type index and the number of
\* pairs of the last annotation.
AfterTargets == U2(1) \o U2(0)

NoTargetRead == [op |-> "none", off |-> 0, val |-> 0]

InitTarget ==
    /\ \E targets \in UNION { [1..n -> TargetMenu] : n \in 1..MaxTargets } :
          /\ input = targets
          /\ b = Flatten(targets) \o AfterTargets
    /\ context = NewContext
    /\ numRes = NoTargetRead
    /\ pc = "targets"
    /\ err = ""
    /\ cpInfoOffsets = <<>>
    /\ header = 0
    /\ maxStringLength = 0
    /\ constantUtf8Values = <<>>
    /\ utf8Calls = <<>>
    /\ parsingOptions = 0
    /\ events = <<>>
    /\ acceptOffset = 0
    /\ fieldsCount = 0
    /\ methodsCount = 0
    /\ code = <<>>

\* "c.readTypeAnnotationTarget(context, currentAnnotationOffset)" on the next
\* target of the buffer.
CallReadTypeAnnotationTarget ==
    /\ pc = "targets"
    /\ numRes.off < Len(b) - Len(AfterTargets)
    /\ \E r \in {readTypeAnnotationTarget(Start(context, numRes.off))} :
          /\ context' = ContextOf(r)
          /\ numRes' = [op |-> "readTypeAnnotationTarget", off |-> r.off, val |-> numRes.off]
          /\ pc' = IF r.ok THEN "targets" ELSE "panicked"
          /\ err' = IF r.ok THEN err ELSE "panic"
    /\ UNCHANGED <<b, cpInfoOffsets, header, maxStringLength, cacheVars, parsingOptions, events,
                   acceptOffset, fieldsCount, methodsCount, code, input>>

NextTarget == CallReadTypeAnnotationTarget

SpecTarget == InitTarget /\ [][NextTarget]_vars

\* The last call has returned.
TargetRead == pc = "targets" /\ numRes.op = "readTypeAnnotationTarget"

\* The path_length of the target the last call has read.
LastPathLength == B(numRes.val + 2)

(* C29: after readTypeAnnotationTarget has decoded an annotation whose     *)
(* type path has length 0, context.currentTypeAnnotationTargetPath is nil, *)
(* also when an earlier annotation had a path that is not empty.           *)
C29_EmptyTypePathIsNil ==
    (TargetRead /\ LastPathLength = 0) =>
        context.currentTypeAnnotationTargetPath = NewContext.currentTypeAnnotationTargetPath


-----------------------------------------------------------------------------
(* The order of the callbacks of one iteration of pass 2.                   *)

\* The callbacks of the step: the events the step has appended.
StepEvents == SubSeq(events', Len(events) + 1, Len(events'))

\* The step is an iteration of pass 2.
IsCodeInsnStep ==
    /\ pc = "code"
    /\ code.currentOffset < code.bytecodeEndOffset
    /\ pc' \in {"code", "panicked"}

\* The bytecode offset of the instruction of the iteration.
StepOffset == code.currentOffset - code.bytecodeStartOffset

\* The place of a callback in the order of an iteration: the label and its
\* line numbers, the stack-map frames, the inserted frame, the instruction,
\* the type annotations of the instruction.
EventRank(e) ==
    IF e.v = "method" /\ e.ev \in {"VisitLabel", "VisitLineNumber"} THEN 1
    ELSE IF IsEvent(e, "method", "VisitFrame") /\ e.arg # F_INSERT THEN 2
    ELSE IF IsEvent(e, "method", "VisitFrame") THEN 3
    ELSE IF e.v = "method" /\ e.ev \in InsnEvents THEN 4
    ELSE 5

\* The callbacks of the step that have the rank r.
StepEventsOf(r) == { i \in DOMAIN StepEvents : EventRank(StepEvents[i]) = r }

\* The opcodes whose case in pass 2 has "insertFrame = true".
InsertFrameSetters == AsmConditionalInsns \cup {ASM_GOTO_W}

RanksAt(o) ==
    [ i \in DOMAIN SelectSeq(SubSeq(events, MethodStart + 1, Len(events)),
                             LAMBDA e : e.v = "method" /\ e.off = o) |->
        EventRank(SelectSeq(SubSeq(events, MethodStart + 1, Len(events)),
                            LAMBDA e : e.v = "method" /\ e.off = o)[i]) ]

\* After an ASM conditional jump the instruction at offset 4 has been
\* visited under EXPAND_FRAMS with a stack-map frame at 4: the callbacks
\* were the label, the frame and the instruction.
StackMapFrameReplacesInsertedFrame ==
    /\ JumpInput(AsmConditionalInsns)
    /\ OptionSet(EXPAND_FRAMS)
    /\ pc = "code"
    /\ StepOffset = 5
    /\ ~code.insertFrame
    /\ input.codeAttrs = "frameAtNext"
    /\ RanksAt(4) = <<1, 2, 4>>

=============================================================================
